---- MODULE Spec2Model ----
(***************************************************************************)
(* py-horizon: the sky colour pipeline of ComputeSkyUseCase.execute, the   *)
(* colour compositor stages, the heuristics derivation and the regime      *)
(* classification.                                                         *)
(*                                                                         *)
(* Numbers.  Python floats are modelled in fixed point.  A colour channel, *)
(* a blend factor, a humidity, a cloud cover, a turbidity and a heuristic  *)
(* value x is the integer x * Unit; every product is rounded to the        *)
(* nearest unit.  A sun altitude is in tenths of a degree.  An 8-bit       *)
(* channel is an integer 0..255.                                           *)
(***************************************************************************)
EXTENDS Integers, Sequences, FiniteSets, TLC

VARIABLES pc, frame, latest, lastRun, ref, hIn, hOut, gw

vars == <<pc, frame, latest, lastRun, ref, hIn, hOut, gw>>

(***************************************************************************)
(* Arithmetic                                                              *)
(***************************************************************************)

\* 1.0 in fixed point (the resolution of a float in the model).
Unit == 10000

\* One degree of sun altitude.
Deg == 10

Min(a, b) == IF a <= b THEN a ELSE b

Max(a, b) == IF a >= b THEN a ELSE b

\* a / b rounded to the nearest integer (b > 0), halves up.
RDiv(a, b) == (a + (b \div 2)) \div b

\* Python's round(a / b) to an integer: halves go to the even neighbour.
PyRound(a, b) ==
    LET q == a \div b
        r2 == 2 * (a % b)
    IN  IF r2 < b THEN q
        ELSE IF r2 > b THEN q + 1
        ELSE IF q % 2 = 0 THEN q ELSE q + 1

(***************************************************************************)
(* colors.py: Color                                                        *)
(***************************************************************************)

Color(r, g, b) == [r |-> r, g |-> g, b |-> b]

clamp_channel(c) == Max(0, Min(Unit, c))

\* clamp left out.
clamp_off(c) == c

clamp(c) == Color(clamp_channel(c.r), clamp_channel(c.g), clamp_channel(c.b))

lerp(c, other, t) ==
    Color(c.r + RDiv((other.r - c.r) * t, Unit),
          c.g + RDiv((other.g - c.g) * t, Unit),
          c.b + RDiv((other.b - c.b) * t, Unit))

\* 0.2126 r + 0.7152 g + 0.0722 b, in units of Unit / 10000 (unrounded).
LumNum(c) == 2126 * c.r + 7152 * c.g + 722 * c.b

luminance(c) == RDiv(LumNum(c), 10000)

desaturate(c, factor) ==
    LET lum == luminance(c)
    IN  Color(c.r + RDiv((lum - c.r) * factor, Unit),
              c.g + RDiv((lum - c.g) * factor, Unit),
              c.b + RDiv((lum - c.b) * factor, Unit))

\* base_luminance < 0.01
DeepNight(zenith_color) == LumNum(zenith_color) < 100 * Unit

(***************************************************************************)
(* color_effects.py: the compositor stages.  Each returns <<horizon,       *)
(* zenith>>.                                                               *)
(***************************************************************************)

apply_overcast_effect(horizon_color, zenith_color, overcast_factor) ==
    IF overcast_factor <= 0 THEN <<horizon_color, zenith_color>>
    ELSE
      LET horizon == desaturate(horizon_color, overcast_factor)
          zenith == desaturate(zenith_color, overcast_factor)
          blend == RDiv(overcast_factor * 4, 10)
          mid == lerp(horizon, zenith, Unit \div 2)
      IN  <<clamp(lerp(horizon, mid, blend)), clamp(lerp(zenith, mid, blend))>>

\* warm = max(0.0, (turbidity_level - 2.2) / 0.8)
TurbidityWarm(turbidity_level) ==
    Max(0, RDiv((turbidity_level - 22 * (Unit \div 10)) * 10, 8))

\* The warm shift at full strength whatever the zenith luminance.
NightAttenuation_off(zenith_color) == Unit

\* night_attenuation = min(1.0, base_luminance * 10)
NightAttenuation(zenith_color) == Min(Unit, RDiv(LumNum(zenith_color), 1000))

apply_turbidity_effect(horizon_color, zenith_color, turbidity_level) ==
    LET warm == TurbidityWarm(turbidity_level)
    IN  IF warm <= 0 THEN <<horizon_color, zenith_color>>
        ELSE
          LET att == NightAttenuation(zenith_color)
              wa == RDiv(warm * att, Unit)
          IN  <<clamp(Color(horizon_color.r + RDiv(8 * wa, 100),
                            horizon_color.g, horizon_color.b)),
                clamp(Color(zenith_color.r + RDiv(3 * wa, 100),
                            zenith_color.g, zenith_color.b))>>

\* Color(1.0, 0.65, 0.35)
pollution_color == Color(Unit, RDiv(65 * Unit, 100), RDiv(35 * Unit, 100))

\* The deep-night horizon blend at its earlier value 0.15.
LightPollutionHorizonBlend_015(zenith_color, pollution_level) ==
    IF DeepNight(zenith_color) THEN RDiv(pollution_level * 15, 100)
    ELSE RDiv(pollution_level * 12, 100)

LightPollutionHorizonBlend(zenith_color, pollution_level) ==
    IF DeepNight(zenith_color) THEN RDiv(pollution_level * 18, 100)
    ELSE RDiv(pollution_level * 12, 100)

LightPollutionZenithBlend(zenith_color, pollution_level) ==
    IF DeepNight(zenith_color) THEN 0
    ELSE RDiv(pollution_level * 3, 100)

apply_light_pollution_effect(horizon_color, zenith_color, pollution_level) ==
    IF pollution_level <= 0 THEN <<horizon_color, zenith_color>>
    ELSE
      <<clamp(lerp(horizon_color, pollution_color,
                   LightPollutionHorizonBlend(zenith_color, pollution_level))),
        clamp(lerp(zenith_color, pollution_color,
                   LightPollutionZenithBlend(zenith_color, pollution_level)))>>

\* A missing humidity (None); no humidity is negative.
NoHumidity == -1

WarmTint(c) == Color(RDiv(c.r * 105, 100), c.g, RDiv(c.b * 95, 100))

\* The haze applied from humidity 0.7 on, not only above it.
apply_weather_effects_ge(horizon_color, zenith_color, cloud_cover, humidity) ==
    IF humidity # NoHumidity /\ humidity >= 7 * (Unit \div 10)
    THEN
      LET haze_factor == Min(Unit \div 10, RDiv((humidity - 7 * (Unit \div 10)) * 3, 10))
          horizon == desaturate(horizon_color, RDiv(haze_factor * 3, 10))
          zenith == desaturate(zenith_color, RDiv(haze_factor * 2, 10))
      IN  <<clamp(WarmTint(horizon)), clamp(WarmTint(zenith))>>
    ELSE <<horizon_color, zenith_color>>

apply_weather_effects(horizon_color, zenith_color, cloud_cover, humidity) ==
    IF humidity # NoHumidity /\ humidity > 7 * (Unit \div 10)
    THEN
      LET haze_factor == Min(Unit \div 10, RDiv((humidity - 7 * (Unit \div 10)) * 3, 10))
          horizon == desaturate(horizon_color, RDiv(haze_factor * 3, 10))
          zenith == desaturate(zenith_color, RDiv(haze_factor * 2, 10))
      IN  <<clamp(WarmTint(horizon)), clamp(WarmTint(zenith))>>
    ELSE <<horizon_color, zenith_color>>

\* A missing air quality index (None); no index is negative.
NoAqi == -1

\* effect_strength = min(1.0, max(0.0, (aqi - 50) / 250))
AqiEffectStrength(aqi) == Min(Unit, Max(0, RDiv((aqi - 50) * Unit, 250)))

AqiHazeColor(aqi) ==
    IF aqi <= 150 THEN Color(RDiv(8 * Unit, 10), RDiv(7 * Unit, 10), RDiv(6 * Unit, 10))
    ELSE Color(RDiv(6 * Unit, 10), RDiv(6 * Unit, 10), RDiv(5 * Unit, 10))

\* night_attenuation of the air quality stage: 0.05 in deep night, else 1.0
AqiNightAttenuation(zenith_color) ==
    IF DeepNight(zenith_color) THEN RDiv(5 * Unit, 100) ELSE Unit

apply_air_quality_effect(horizon_color, zenith_color, aqi) ==
    IF aqi = NoAqi THEN <<horizon_color, zenith_color>>
    ELSE IF aqi <= 50 THEN <<horizon_color, zenith_color>>
    ELSE
      LET sa == RDiv(AqiEffectStrength(aqi) * AqiNightAttenuation(zenith_color), Unit)
          haze_color == AqiHazeColor(aqi)
      IN  <<clamp(lerp(horizon_color, haze_color, RDiv(sa * 2, 10))),
            clamp(lerp(zenith_color, haze_color, RDiv(sa, 10)))>>

(***************************************************************************)
(* heuristics.py                                                           *)
(***************************************************************************)

Heuristics(turbidity, overcast, light_pollution) ==
    [turbidity |-> turbidity, overcast |-> overcast, light_pollution |-> light_pollution]

\* Python's float x % m for m > 0: x - floor(x / m) * m.
fmod(x, m) == x % m

\* base is the seed value in [0, 1), in fixed point.
\* The modulo left out.
derive_turbidity_nomod(base) == 22 * (Unit \div 10) + base

derive_turbidity(base) == 22 * (Unit \div 10) + fmod(base, 8 * (Unit \div 10))

derive_overcast(base) == fmod(RDiv(base * 137, 100), Unit)

derive_light_pollution(base) ==
    35 * (Unit \div 100) + fmod(RDiv(base * 73, 100), 3 * (Unit \div 10))

derive(base) ==
    Heuristics(derive_turbidity(base), derive_overcast(base), derive_light_pollution(base))

(***************************************************************************)
(* regimes.py                                                              *)
(***************************************************************************)

\* The civil band's lower boundary made exclusive.
classify_regime_strict(altitude_deg) ==
    IF altitude_deg >= 10 * Deg THEN "DAY"
    ELSE IF altitude_deg >= 0 THEN "LOW_SUN"
    ELSE IF altitude_deg > -6 * Deg THEN "CIVIL"
    ELSE IF altitude_deg >= -12 * Deg THEN "NAUTICAL"
    ELSE IF altitude_deg >= -18 * Deg THEN "ASTRONOMICAL"
    ELSE "NIGHT"

classify_regime(altitude_deg) ==
    IF altitude_deg >= 10 * Deg THEN "DAY"
    ELSE IF altitude_deg >= 0 THEN "LOW_SUN"
    ELSE IF altitude_deg >= -6 * Deg THEN "CIVIL"
    ELSE IF altitude_deg >= -12 * Deg THEN "NAUTICAL"
    ELSE IF altitude_deg >= -18 * Deg THEN "ASTRONOMICAL"
    ELSE "NIGHT"

(***************************************************************************)
(* compute_sky_use_case.py: helpers                                        *)
(***************************************************************************)

\* The cap at 3.2 left out.
adjust_turbidity_uncapped(base_t, rh) ==
    IF rh = NoHumidity THEN base_t
    ELSE IF rh > 7 * (Unit \div 10)
    THEN base_t + Min(Unit \div 2, RDiv((rh - 7 * (Unit \div 10)) * 12, 10))
    ELSE base_t

adjust_turbidity_with_humidity(base_t, rh) ==
    IF rh = NoHumidity THEN base_t
    ELSE IF rh > 7 * (Unit \div 10)
    THEN LET boost == Min(Unit \div 2, RDiv((rh - 7 * (Unit \div 10)) * 12, 10))
         IN  Min(32 * (Unit \div 10), base_t + boost)
    ELSE base_t

\* raw with the turbidity normalised over 2.2-3.2, the range derive gives
\* and the humidity adjustment extends, instead of 2.0-3.2.
AqiRaw_from_derive_floor(heur) ==
    LET t_norm == Max(0, Min(Unit, heur.turbidity - 22 * (Unit \div 10)))
        lp_norm == Max(0, Min(Unit, heur.light_pollution))
        raw == RDiv((210 * t_norm + 90 * lp_norm) * 100, Unit)
    IN  raw + RDiv(-(raw * heur.overcast), 5 * Unit)

\* raw of _derive_aqi after the overcast discount, in hundredths.
AqiRaw(heur) ==
    LET t_norm == Max(0, Min(Unit, RDiv((heur.turbidity - 2 * Unit) * 10, 12)))
        lp_norm == Max(0, Min(Unit, heur.light_pollution))
        \* raw = (t_norm * 0.7 + lp_norm * 0.3) * 300
        raw == RDiv((210 * t_norm + 90 * lp_norm) * 100, Unit)
        \* raw *= 1.0 - 0.2 * overcast
    IN  raw + RDiv(-(raw * heur.overcast), 5 * Unit)

\* The result left as rounded, without the clamp to 0..500.
derive_aqi_unclamped(heur) == PyRound(AqiRaw(heur), 100)

\* int(max(0, min(500, round(raw))))
derive_aqi(heur) == Max(0, Min(500, PyRound(AqiRaw(heur), 100)))

(***************************************************************************)
(* atmospheric_scattering.py: post-processing and gamma                    *)
(***************************************************************************)

\* (n / 255) ** 2.2 for n = 0..255, in fixed point (entry n + 1).
Pow22Table ==
    <<0, 0, 0, 1, 1, 2, 3, 4, 5, 6, 8, 10, 12, 14, 17, 20, 23, 26, 29, 33,
      37, 41, 46, 50, 55, 60, 66, 72, 78, 84, 90, 97, 104, 111, 119, 127,
      135, 143, 152, 161, 170, 179, 189, 199, 210, 220, 231, 242, 254, 265,
      278, 290, 303, 316, 329, 342, 356, 370, 385, 399, 415, 430, 446, 461,
      478, 494, 511, 528, 546, 564, 582, 600, 619, 638, 658, 677, 697, 718,
      738, 759, 781, 802, 824, 846, 869, 892, 915, 939, 963, 987, 1011, 1036,
      1062, 1087, 1113, 1139, 1166, 1193, 1220, 1247, 1275, 1304, 1332, 1361,
      1390, 1420, 1450, 1480, 1511, 1542, 1573, 1604, 1636, 1669, 1701, 1734,
      1768, 1801, 1835, 1870, 1905, 1940, 1975, 2011, 2047, 2084, 2120, 2158,
      2195, 2233, 2271, 2310, 2349, 2388, 2428, 2468, 2508, 2549, 2590, 2632,
      2674, 2716, 2758, 2801, 2845, 2888, 2932, 2977, 3021, 3066, 3112, 3158,
      3204, 3250, 3297, 3345, 3392, 3440, 3489, 3537, 3587, 3636, 3686, 3736,
      3787, 3838, 3889, 3941, 3993, 4045, 4098, 4151, 4205, 4259, 4313, 4368,
      4423, 4479, 4535, 4591, 4647, 4704, 4762, 4820, 4878, 4936, 4995, 5054,
      5114, 5174, 5234, 5295, 5356, 5418, 5480, 5542, 5605, 5668, 5732, 5795,
      5860, 5924, 5989, 6055, 6121, 6187, 6253, 6320, 6388, 6456, 6524, 6592,
      6661, 6730, 6800, 6870, 6941, 7012, 7083, 7155, 7227, 7299, 7372, 7445,
      7519, 7593, 7667, 7742, 7818, 7893, 7969, 8046, 8122, 8200, 8277, 8355,
      8434, 8513, 8592, 8671, 8751, 8832, 8913, 8994, 9075, 9158, 9240, 9323,
      9406, 9490, 9574, 9658, 9743, 9828, 9914, 10000>>

GammaThreshold ==
    <<1, 1, 1, 1, 2, 3, 4, 5, 6, 8, 9, 11, 14, 16, 19, 22, 25, 28, 32, 35,
      40, 44, 48, 53, 58, 64, 69, 75, 81, 87, 94, 101, 108, 116, 123, 131,
      139, 148, 157, 166, 175, 185, 195, 205, 215, 226, 237, 248, 260, 272,
      284, 297, 310, 323, 336, 350, 364, 378, 393, 407, 423, 438, 454, 470,
      487, 503, 520, 538, 555, 573, 592, 610, 629, 648, 668, 688, 708, 728,
      749, 770, 792, 814, 836, 858, 881, 904, 927, 951, 975, 1000, 1024,
      1049, 1075, 1101, 1127, 1153, 1180, 1207, 1234, 1262, 1290, 1318, 1347,
      1376, 1405, 1435, 1465, 1496, 1527, 1558, 1589, 1621, 1653, 1686, 1718,
      1752, 1785, 1819, 1853, 1888, 1923, 1958, 1994, 2029, 2066, 2102, 2139,
      2177, 2215, 2253, 2291, 2330, 2369, 2409, 2448, 2489, 2529, 2570, 2611,
      2653, 2695, 2738, 2780, 2823, 2867, 2911, 2955, 2999, 3044, 3090, 3135,
      3181, 3228, 3274, 3321, 3369, 3417, 3465, 3513, 3562, 3612, 3661, 3711,
      3762, 3813, 3864, 3915, 3967, 4020, 4072, 4125, 4179, 4233, 4287, 4341,
      4396, 4451, 4507, 4563, 4620, 4676, 4734, 4791, 4849, 4907, 4966, 5025,
      5085, 5144, 5205, 5265, 5326, 5388, 5449, 5512, 5574, 5637, 5700, 5764,
      5828, 5893, 5957, 6023, 6088, 6154, 6221, 6287, 6355, 6422, 6490, 6558,
      6627, 6696, 6766, 6836, 6906, 6977, 7048, 7119, 7191, 7263, 7336, 7409,
      7483, 7556, 7631, 7705, 7780, 7856, 7932, 8008, 8084, 8161, 8239, 8317,
      8395, 8474, 8553, 8632, 8712, 8792, 8873, 8954, 9035, 9117, 9199, 9282,
      9365, 9448, 9532, 9616, 9701, 9786, 9872, 9957>>

\* The number of thresholds at or below x, given that the lo - 1 first are
\* and those after hi are not (GammaThreshold is ascending).
RECURSIVE GammaSearch(_, _, _)
GammaSearch(x, lo, hi) ==
    IF lo > hi THEN hi
    ELSE LET mid == (lo + hi) \div 2
         IN  IF GammaThreshold[mid] <= x THEN GammaSearch(x, mid + 1, hi)
             ELSE GammaSearch(x, lo, mid - 1)

\* round(clamp(x, 0, 1) ** (1 / 2.2) * 255): the number of thresholds at or
\* below x (GammaThreshold[k] is the least x that encodes to k or more).
GammaEncode8(x) == GammaSearch(clamp_channel(x), 1, 255)

Rgb8(r, g, b) == <<r, g, b>>

EXPOSURE == 25

\* apply_sunset_bias on a colour in fixed point; SUNSET_BIAS_STRENGTH = 0.1
apply_sunset_bias(color) ==
    LET lum == luminance(color)
        w == RDiv(Unit * Unit, Unit + 2 * lum)
    IN  Color(Max(0, color.r + RDiv(color.r * w, 20 * Unit)),
              Max(0, color.g - RDiv(color.g * w, 20 * Unit)),
              Max(0, color.b + RDiv(color.b * w, 10 * Unit)))

\* ACES tonemapper on one channel; the ratio is taken in thousandths.
aces_channel(c) ==
    LET m == RDiv(c * 1000, Unit)
        n == m * (251 * m + 3000)
        d == m * (243 * m + 59000) + 14000000
    IN  Max(0, Min(Unit, RDiv(n, d \div Unit)))

aces(color) == Color(aces_channel(color.r), aces_channel(color.g), aces_channel(color.b))

\* render_gradient, lines 294-304: exposure, sunset bias, ACES, gamma, 8 bits.
PostProcess(inscattered) ==
    LET exposed == Color(inscattered.r * EXPOSURE, inscattered.g * EXPOSURE,
                         inscattered.b * EXPOSURE)
        mapped == aces(apply_sunset_bias(exposed))
    IN  Rgb8(GammaEncode8(mapped.r), GammaEncode8(mapped.g), GammaEncode8(mapped.b))

\* atmospheric_sky_colors, lines 331-339: 8 bits to linear, clamped.
LinearFromRgb8(rgb) ==
    clamp(Color(Pow22Table[rgb[1] + 1], Pow22Table[rgb[2] + 1], Pow22Table[rgb[3] + 1]))

(***************************************************************************)
(* The instants of the model.  sun_position, the SHA-256 seed and the      *)
(* scattering integrator are float and hash computations; they are         *)
(* tabulated from the source for eight instants at lat 40.0, lon -100.0:   *)
(* 2025-03-20 06:00, 12:30, 13:00, 18:00, 2025-04-19 06:00, 11:45, 12:15   *)
(* and 2025-03-21 17:54 (UTC).  The fourth and the eighth have the same    *)
(* sun altitude and different date seeds.  The same instants are tabulated *)
(* at lat 25.0, lon 121.5, the rounded default coordinates.                *)
(***************************************************************************)

\* sun_position(now, 40.0, -100.0).altitude_deg, in tenths of a degree.
SunAltitudeTable == <<-487, -35, 23, 485, -381, -30, 26, 485>>

\* floor(_seed_value(40.0, -100.0, now) * Unit)
SeedValueTable == <<7785, 7785, 7785, 7785, 139, 139, 139, 6938>>

\* sun_position(now, 25.0, 121.5).altitude_deg, in tenths of a degree.
SunAltitudeDefaultTable == <<519, -331, -395, -521, 570, -195, -256, -528>>

\* floor(_seed_value(25.0, 121.5, now) * Unit)
SeedValueDefaultTable == <<6750, 6750, 6750, 6750, 8814, 8814, 8814, 5861>>

Instants == DOMAIN SunAltitudeTable

\* One degree of latitude or longitude: coordinates are in millionths.
Micro == 1000000

Location(lat, lon) == [lat |-> lat, lon |-> lon]

\* current_location() returned None.
NoLocation == [none |-> TRUE]

\* The fallback of execute, lines 66-67.
DefaultLocation == Location(25105497, 121597366)

FixedLocation == Location(40 * Micro, -100 * Micro)

\* The instant and what the location gateway returns: every instant at the
\* fixed location, a day and a night instant with no location.
Observations == (Instants \X {FixedLocation}) \cup ({1, 2} \X {NoLocation})

\* round(x * inv) / inv for the default precision 0.25 (lines 71-77).
round_to_precision(x) == PyRound(x * 4, Micro) * (Micro \div 4)

sun_position(now, lat_round, lon_round) ==
    CASE lat_round = 40 * Micro /\ lon_round = -100 * Micro -> SunAltitudeTable[now]
      [] lat_round = 25 * Micro /\ lon_round = 1215 * (Micro \div 10) ->
            SunAltitudeDefaultTable[now]

seed_value(lat_round, lon_round, now) ==
    CASE lat_round = 40 * Micro /\ lon_round = -100 * Micro -> SeedValueTable[now]
      [] lat_round = 25 * Micro /\ lon_round = 1215 * (Micro \div 10) ->
            SeedValueDefaultTable[now]

\* render_gradient(radians(altitude_deg)): the 8-bit zenith stop (percent 0)
\* and horizon stop (percent 100) the source returns for the model's altitudes.
render_gradient(altitude_deg) ==
    CASE altitude_deg \in {-528, -521, -487, -395, -381, -331, -256, -195} ->
            [zenith |-> Rgb8(0, 0, 0), horizon |-> Rgb8(0, 0, 0)]
      [] altitude_deg = -35 -> [zenith |-> Rgb8(14, 10, 14), horizon |-> Rgb8(14, 3, 0)]
      [] altitude_deg = -30 -> [zenith |-> Rgb8(19, 13, 18), horizon |-> Rgb8(19, 4, 0)]
      [] altitude_deg = 23 -> [zenith |-> Rgb8(78, 81, 103), horizon |-> Rgb8(196, 123, 25)]
      [] altitude_deg = 26 -> [zenith |-> Rgb8(79, 84, 108), horizon |-> Rgb8(199, 133, 31)]
      [] altitude_deg = 485 -> [zenith |-> Rgb8(118, 164, 210), horizon |-> Rgb8(228, 230, 228)]
      [] altitude_deg = 519 -> [zenith |-> Rgb8(119, 166, 211), horizon |-> Rgb8(228, 231, 229)]
      [] altitude_deg = 570 -> [zenith |-> Rgb8(122, 168, 213), horizon |-> Rgb8(228, 231, 229)]

\* Returns <<horizon, zenith>>, linear and clamped.
atmospheric_sky_colors(sun_altitude_deg) ==
    LET g == render_gradient(sun_altitude_deg)
    IN  <<LinearFromRgb8(g.horizon), LinearFromRgb8(g.zenith)>>

(***************************************************************************)
(* atmospheric_scattering.py: the ray geometry and the list of stops.      *)
(* Lengths are in units of 20 km and the components of a direction in      *)
(* hundredths, so a distance along a ray is in units of 200 m.  The float  *)
(* integrals (the optical-depth march and the in-scattering sum) are       *)
(* tabulated from the source; the branches around them are translated.     *)
(***************************************************************************)

SAMPLES == 32

\* 6360 km and 6460 km.
GROUND_RADIUS == 318

TOP_RADIUS == 323

dot(v1, v2) == v1[1] * v2[1] + v1[2] * v2[2] + v1[3] * v2[3]

\* The largest root with root * root <= n, between lo and hi.
RECURSIVE SqrtSearch(_, _, _)
SqrtSearch(n, lo, hi) ==
    IF lo >= hi THEN lo
    ELSE LET mid == (lo + hi + 1) \div 2
         IN  IF mid * mid <= n THEN SqrtSearch(n, mid, hi)
             ELSE SqrtSearch(n, lo, mid - 1)

\* math.sqrt on a non-negative integer, rounded down.
sqrt(n) == SqrtSearch(n, 0, 46340)

\* intersect_sphere returned None.
NoIntersection == [hit |-> FALSE]

\* b is in hundredths of a length unit, so c is scaled by 100 * 100.
intersect_sphere(p, d, r) ==
    LET m == p
        b == dot(m, d)
        c == (dot(m, m) - r * r) * 10000
        discr == b * b - c
    IN  IF discr < 0 THEN NoIntersection
        ELSE LET t == -b - sqrt(discr)
             IN  IF t < 0 THEN [hit |-> TRUE, t |-> -b + sqrt(discr)]
                 ELSE [hit |-> TRUE, t |-> t]

\* The angles of the rays whose transmittance is taken, in degrees.
RayAngles == {0, 60, 90, 120, 180}

\* The heights they start from: 0, 40, 100, 200 and 400 km.
RayHeights == {0, 2, 5, 10, 20}

\* math.sin of a whole number of degrees from 0 to 90, in units of 1 / Unit.
SinTable ==
    <<0, 175, 349, 523, 698, 872, 1045, 1219, 1392, 1564, 1736, 1908, 2079,
      2250, 2419, 2588, 2756, 2924, 3090, 3256, 3420, 3584, 3746, 3907, 4067,
      4226, 4384, 4540, 4695, 4848, 5000, 5150, 5299, 5446, 5592, 5736, 5878,
      6018, 6157, 6293, 6428, 6561, 6691, 6820, 6947, 7071, 7193, 7314, 7431,
      7547, 7660, 7771, 7880, 7986, 8090, 8192, 8290, 8387, 8480, 8572, 8660,
      8746, 8829, 8910, 8988, 9063, 9135, 9205, 9272, 9336, 9397, 9455, 9511,
      9563, 9613, 9659, 9703, 9744, 9781, 9816, 9848, 9877, 9903, 9925, 9945,
      9962, 9976, 9986, 9994, 9998, 10000>>

\* math.sin and math.cos of an angle in whole degrees, in units of 1 / Unit.
sin(angle) ==
    LET a == angle % 360
    IN  IF a <= 90 THEN SinTable[a + 1]
        ELSE IF a <= 180 THEN SinTable[180 - a + 1]
        ELSE IF a <= 270 THEN -SinTable[a - 180 + 1]
        ELSE -SinTable[360 - a + 1]

cos(angle) == sin(angle + 90)

\* compute_transmittance, lines 99-152: exp(-tau) of the march along a ray
\* that meets the top of the atmosphere, per channel, as the source returns
\* it for RayHeights and RayAngles.
BeerLambert(height, angle) ==
    CASE height = 0 /\ angle = 0 -> <<9418, 8693, 7645>>
      [] height = 0 /\ angle = 60 -> <<8874, 7567, 5856>>
      [] height = 0 /\ angle = 90 -> <<1064, 96, 1>>
      [] height = 0 /\ angle \in {120, 180} -> <<0, 0, 0>>
      [] height = 2 /\ angle = 0 -> <<9997, 9993, 9982>>
      [] height = 2 /\ angle = 60 -> <<9994, 9985, 9965>>
      [] height = 2 /\ angle = 90 -> <<9890, 9744, 9387>>
      [] height = 2 /\ angle \in {120, 180} -> <<0, 0, 0>>
      [] height \in {5, 10, 20} -> <<Unit, Unit, Unit>>

compute_transmittance_opaque_miss(height, angle) ==
    LET ray_origin == <<0, GROUND_RADIUS + height, 0>>
        ray_direction == <<RDiv(sin(angle), 100), RDiv(cos(angle), 100), 0>>
        distance == intersect_sphere(ray_origin, ray_direction, TOP_RADIUS)
    IN  IF distance = NoIntersection THEN <<0, 0, 0>>
        ELSE BeerLambert(height, angle)

compute_transmittance(height, angle) ==
    LET ray_origin == <<0, GROUND_RADIUS + height, 0>>
        ray_direction == <<RDiv(sin(angle), 100), RDiv(cos(angle), 100), 0>>
        distance == intersect_sphere(ray_origin, ray_direction, TOP_RADIUS)
    IN  IF distance = NoIntersection THEN <<Unit, Unit, Unit>>
        ELSE BeerLambert(height, angle)

\* The sun altitudes whose gradients are rendered stop by stop.
StopAltitudes == {-487, -35, 23, 485}

\* render_gradient, lines 209-304: the 8-bit colour of view sample i (the
\* in-scattering sum, post-processed) for a ray that leaves the atmosphere,
\* as the source computes it; entry i + 1 is view sample i.
IntegratedStops(altitude_deg) ==
    CASE altitude_deg = -487 -> [k \in 1..SAMPLES |-> Rgb8(0, 0, 0)]
      [] altitude_deg = -35 ->
            <<<<14, 3, 0>>, <<24, 7, 2>>, <<29, 10, 5>>, <<30, 12, 8>>,
              <<30, 13, 10>>, <<29, 14, 12>>, <<27, 14, 13>>, <<26, 14, 14>>,
              <<25, 14, 15>>, <<24, 13, 16>>, <<23, 13, 16>>, <<22, 13, 16>>,
              <<21, 13, 16>>, <<20, 12, 16>>, <<20, 12, 16>>, <<19, 12, 16>>,
              <<19, 12, 16>>, <<18, 12, 16>>, <<18, 11, 16>>, <<17, 11, 15>>,
              <<17, 11, 15>>, <<17, 11, 15>>, <<16, 11, 15>>, <<16, 11, 15>>,
              <<16, 10, 15>>, <<15, 10, 15>>, <<15, 10, 15>>, <<15, 10, 14>>,
              <<15, 10, 14>>, <<15, 10, 14>>, <<14, 10, 14>>, <<14, 10, 14>>>>
      [] altitude_deg = 23 ->
            <<<<196, 123, 25>>, <<199, 152, 43>>, <<193, 160, 71>>,
              <<184, 160, 95>>, <<175, 157, 111>>, <<166, 152, 120>>,
              <<158, 147, 126>>, <<150, 142, 128>>, <<143, 136, 130>>,
              <<136, 132, 130>>, <<131, 127, 129>>, <<125, 123, 128>>,
              <<121, 119, 127>>, <<116, 115, 126>>, <<112, 112, 124>>,
              <<109, 109, 123>>, <<105, 106, 121>>, <<102, 103, 120>>,
              <<99, 101, 118>>, <<97, 98, 117>>, <<95, 96, 115>>,
              <<92, 94, 114>>, <<90, 92, 113>>, <<89, 91, 111>>,
              <<87, 89, 110>>, <<85, 88, 109>>, <<84, 86, 108>>,
              <<82, 85, 107>>, <<81, 84, 106>>, <<80, 83, 105>>,
              <<79, 82, 104>>, <<78, 81, 103>>>>
      [] altitude_deg = 485 ->
            <<<<228, 230, 228>>, <<225, 232, 231>>, <<219, 230, 232>>,
              <<211, 227, 233>>, <<204, 223, 232>>, <<196, 220, 232>>,
              <<189, 216, 231>>, <<183, 212, 230>>, <<176, 208, 229>>,
              <<171, 205, 227>>, <<165, 201, 226>>, <<161, 198, 225>>,
              <<156, 195, 224>>, <<152, 192, 223>>, <<149, 190, 222>>,
              <<145, 187, 221>>, <<142, 185, 220>>, <<139, 183, 219>>,
              <<137, 181, 218>>, <<135, 179, 217>>, <<132, 177, 216>>,
              <<130, 175, 215>>, <<129, 174, 215>>, <<127, 172, 214>>,
              <<126, 171, 213>>, <<124, 170, 213>>, <<123, 169, 212>>,
              <<122, 168, 212>>, <<121, 167, 211>>, <<120, 166, 211>>,
              <<119, 165, 210>>, <<118, 164, 210>>>>

\* 1.0 / tan(37.5 degrees), in units of 1 / Unit (line 197).
focal_z == 13032

\* s = i / (SAMPLES - 1) (line 202)
ViewS(i) == RDiv(i * Unit, SAMPLES - 1)

\* norm((0, s, focal_z)), in hundredths (line 204)
view_direction(i) ==
    LET len_val == sqrt(ViewS(i) * ViewS(i) + focal_z * focal_z)
    IN  <<0, RDiv(ViewS(i) * 100, len_val), RDiv(focal_z * 100, len_val)>>

camera_position == <<0, GROUND_RADIUS, 0>>

\* Lines 206-304: the colour of view sample i.  A ray with no positive exit
\* distance keeps inscattered = (0, 0, 0), which is post-processed as well.
StopRgb(altitude_deg, i) ==
    LET t_exit_top == intersect_sphere(camera_position, view_direction(i), TOP_RADIUS)
    IN  IF t_exit_top # NoIntersection /\ t_exit_top.t > 0
        THEN IntegratedStops(altitude_deg)[i + 1]
        ELSE PostProcess(Color(0, 0, 0))

\* percent = (1 - s) * 100, in units of 1 / Unit of a percent (line 307)
StopPercent(i) == (Unit - ViewS(i)) * 100

\* The list after the loop: stop i appended at place i + 1 (line 308).
AppendedStops(altitude_deg) ==
    [k \in 1..SAMPLES |->
        [percent |-> StopPercent(k - 1), rgb |-> StopRgb(altitude_deg, k - 1)]]

\* One stop put into an ascending list, after the stops equal to it.
RECURSIVE InsertStop(_, _)
InsertStop(sorted, stop) ==
    IF sorted = <<>> THEN <<stop>>
    ELSE IF sorted[Len(sorted)].percent <= stop.percent THEN Append(sorted, stop)
    ELSE Append(InsertStop(SubSeq(sorted, 1, Len(sorted) - 1), stop),
                sorted[Len(sorted)])

RECURSIVE SortPrefix(_, _)
SortPrefix(stops, n) ==
    IF n = 0 THEN <<>>
    ELSE InsertStop(SortPrefix(stops, n - 1), stops[n])

SortStops_unsorted(stops) == stops

\* stops.sort(key=lambda x: x[0]) (line 311): ascending and stable.
SortStops(stops) == SortPrefix(stops, Len(stops))

\* What render_gradient returns, with the sorted list in place of the CSS
\* string made from it (lines 311-320).
GradientStops(altitude_deg) ==
    LET stops == SortStops(AppendedStops(altitude_deg))
    IN  [stops |-> stops,
         zenith |-> stops[1].rgb,
         horizon |-> stops[Len(stops)].rgb]

(***************************************************************************)
(* geo/sun.py: the end of sun_position (lines 103-111), from the hour      *)
(* angle H, the latitude phi and the declination dec, in whole degrees.    *)
(* Products are rounded to the grid of 1 / Unit as floats are to theirs.   *)
(***************************************************************************)

\* math.asin raised ValueError (math domain error).
DomainError == [raised |-> "ValueError"]

\* math.asin of x in [-1, 1], in degrees rounded toward zero.
asin(x) ==
    LET k == CHOOSE k \in 0..90 :
                 /\ SinTable[k + 1] <= (IF x < 0 THEN -x ELSE x)
                 /\ (k < 90 => SinTable[k + 2] > (IF x < 0 THEN -x ELSE x))
    IN  IF x < 0 THEN -k ELSE k

\* math.atan2(y, x) in degrees, from -179 to 180: the direction nearest to
\* that of (x, y); atan2(0, 0) is 0.
atan2(y, x) ==
    IF x = 0 /\ y = 0 THEN 0
    ELSE LET along(k) == x * cos(k) + y * sin(k)
             reach == {along(k) : k \in -179..180}
             most == CHOOSE v \in reach : \A w \in reach : w <= v
             best == {k \in -179..180 : along(k) = most}
         IN  CHOOSE k \in best : \A j \in best : k <= j

\* _altitude (lines 79-81): the argument of asin; asin is not defined
\* outside [-1, 1].
sun_altitude(H, phi, dec) ==
    LET x == RDiv(sin(phi) * sin(dec), Unit)
                 + RDiv(RDiv(cos(phi) * cos(dec), Unit) * cos(H), Unit)
    IN  IF x < -Unit \/ x > Unit THEN DomainError ELSE [deg |-> asin(x)]

\* _azimuth (lines 84-86)
sun_azimuth(H, phi, dec) ==
    LET tan_dec == RDiv(sin(dec) * Unit, cos(dec))
    IN  atan2(sin(H), RDiv(cos(H) * sin(phi), Unit) - RDiv(tan_dec * cos(phi), Unit))

\* Lines 103-111: an exception of _altitude leaves sun_position.
SunPosition(H, phi, dec) ==
    LET alt == sun_altitude(H, phi, dec)
    IN  IF alt = DomainError THEN [ended |-> "raised"]
        ELSE [ended |-> "returned",
              altitude_deg |-> alt.deg,
              azimuth_deg |-> (sun_azimuth(H, phi, dec) + 360) % 360]

\* Hour angles (sidereal time less right ascension runs over many turns),
\* latitudes from pole to pole and declinations of the sun.
SunAngles ==
    {[H |-> H, phi |-> phi, dec |-> dec] :
        H \in {-360, -180, -90, -1, 0, 1, 90, 179, 180, 540},
        phi \in {-90, -21, -9, 0, 9, 21, 45, 90},
        dec \in {-23, -21, -9, 0, 9, 21, 23}}

(***************************************************************************)
(* Preferences and weather samples                                         *)
(***************************************************************************)

Preferences(lp, w, aq) ==
    [influence_light_pollution |-> lp, influence_weather |-> w, influence_air_quality |-> aq]

AllPreferences == {Preferences(lp, w, aq) : lp \in BOOLEAN, w \in BOOLEAN, aq \in BOOLEAN}

\* No weather sample: no provider configured, or the provider returned None.
NoSample == [none |-> TRUE]

WeatherSample(cloud_cover, rel_humidity, temperature_c) ==
    [cloud_cover |-> cloud_cover, rel_humidity |-> rel_humidity,
     temperature_c |-> temperature_c]

\* Clear and dry; cloudy and humid; some cloud at the humidity threshold 0.7.
SampleClearDry == WeatherSample(0, 5 * (Unit \div 10), 20)

SampleCloudyHumid == WeatherSample(8 * (Unit \div 10), 9 * (Unit \div 10), 12)

SampleThreshold == WeatherSample(3 * (Unit \div 10), 7 * (Unit \div 10), 25)

AllSamples == {NoSample, SampleClearDry, SampleCloudyHumid, SampleThreshold}

(***************************************************************************)
(* ComputeSkyUseCase.execute.  A run is three steps, split where execute   *)
(* calls out: Begin (lines 40-101), Weather (lines 103-131, the call of    *)
(* weather.sample and what depends on it) and Finish (lines 133-152, which *)
(* ends with presenter.present).  trace lists the stages applied, in       *)
(* order, each with the colours it was given and the colours it returned.  *)
(***************************************************************************)

Threads == {1, 2}

\* temperature_c = None (line 93); the model's temperatures are above it.
NoTemperature == -999

\* weather_summary = None (line 94).
NoSummary == "None"

\* presenter.latest before the first present.
NoSnapshot == [none |-> TRUE]

IdleFrame == [phase |-> "idle"]

\* horizon, zenith = apply_X(hin, zin, ...): the assignment, and its record.
Applied(fr, stage, hin, zin, out) ==
    [fr EXCEPT !.horizon = out[1], !.zenith = out[2],
               !.trace = Append(@, [stage |-> stage, hin |-> hin, zin |-> zin,
                                    hout |-> out[1], zout |-> out[2]])]

\* The heuristics kept from the run presented last, whatever its instant.
RunHeuristics_cached(lat_round, lon_round, now) ==
    IF latest # NoSnapshot THEN latest.heuristics
    ELSE derive(seed_value(lat_round, lon_round, now))

\* The heuristics of a run (line 83).
RunHeuristics(lat_round, lon_round, now) == derive(seed_value(lat_round, lon_round, now))

\* Lines 40-83: preferences, instant, sun, regime, base colours, heuristics.
Loaded(prefs, now, location) ==
    LET loc == IF location = NoLocation THEN DefaultLocation ELSE location
        lat_round == round_to_precision(loc.lat)
        lon_round == round_to_precision(loc.lon)
        altitude == sun_position(now, lat_round, lon_round)
        base == atmospheric_sky_colors(altitude)
    IN  [phase |-> "run", prefs |-> prefs, now |-> now, sample |-> NoSample,
         location |-> location, lat_round |-> lat_round, lon_round |-> lon_round,
         presents |-> 0,
         sun_altitude |-> altitude, regime |-> classify_regime(altitude),
         base_horizon |-> base[1], base_zenith |-> base[2],
         horizon |-> base[1], zenith |-> base[2],
         heur |-> RunHeuristics(lat_round, lon_round, now),
         temperature_c |-> NoTemperature, weather_summary |-> NoSummary,
         trace |-> <<>>]

\* Lines 88-90.
LightPollutionStep(fr) ==
    IF fr.prefs.influence_light_pollution /\ fr.heur.light_pollution > 0
    THEN Applied(fr, "light_pollution", fr.horizon, fr.zenith,
                 apply_light_pollution_effect(fr.horizon, fr.zenith, fr.heur.light_pollution))
    ELSE fr

\* The turbidity stage applied whatever the weather toggle says.
TurbidityStep_untoggled(fr) ==
    Applied(fr, "turbidity", fr.horizon, fr.zenith,
            apply_turbidity_effect(fr.horizon, fr.zenith, fr.heur.turbidity))

\* Lines 98-101.
TurbidityStep(fr) ==
    IF fr.prefs.influence_weather
    THEN Applied(fr, "turbidity", fr.horizon, fr.zenith,
                 apply_turbidity_effect(fr.horizon, fr.zenith, fr.heur.turbidity))
    ELSE fr

\* Lines 115-116.
WeatherEffectsStep(fr, sample) ==
    Applied(fr, "weather", fr.horizon, fr.zenith,
            apply_weather_effects(fr.horizon, fr.zenith, sample.cloud_cover,
                                  sample.rel_humidity))

\* Lines 118-120.
OvercastStep(fr, sample) ==
    IF sample.cloud_cover > 0
    THEN Applied(fr, "overcast", fr.horizon, fr.zenith,
                 apply_overcast_effect(fr.horizon, fr.zenith, sample.cloud_cover))
    ELSE fr

\* Lines 122-131.
AdjustedTurbidityStep(fr, sample) ==
    LET baseline_turbidity == fr.heur.turbidity
        adjusted_turbidity ==
            adjust_turbidity_with_humidity(baseline_turbidity, sample.rel_humidity)
    IN  IF adjusted_turbidity # baseline_turbidity
        THEN [Applied(fr, "turbidity", fr.horizon, fr.zenith,
                      apply_turbidity_effect(fr.horizon, fr.zenith, adjusted_turbidity))
                EXCEPT !.heur = Heuristics(adjusted_turbidity, fr.heur.overcast,
                                           fr.heur.light_pollution)]
        ELSE fr

\* Without a sample, the overcast stage applied with the heuristic overcast
\* (the default cloud_cover of line 95).
WeatherStep_heuristic_overcast(fr, sample) ==
    IF sample = NoSample
    THEN IF fr.prefs.influence_weather /\ fr.heur.overcast > 0
         THEN Applied(fr, "overcast", fr.horizon, fr.zenith,
                      apply_overcast_effect(fr.horizon, fr.zenith, fr.heur.overcast))
         ELSE fr
    ELSE
      LET collected ==
            [fr EXCEPT !.sample = sample,
                       !.temperature_c = sample.temperature_c,
                       !.weather_summary =
                           IF sample.cloud_cover > Unit \div 2 THEN "Clouds" ELSE "Clear"]
      IN  IF fr.prefs.influence_weather
          THEN AdjustedTurbidityStep(
                 OvercastStep(WeatherEffectsStep(collected, sample), sample), sample)
          ELSE collected

\* The overcast stage applied before the weather/haze stage.
WeatherStep_overcast_first(fr, sample) ==
    IF sample = NoSample THEN fr
    ELSE
      LET collected ==
            [fr EXCEPT !.sample = sample,
                       !.temperature_c = sample.temperature_c,
                       !.weather_summary =
                           IF sample.cloud_cover > Unit \div 2 THEN "Clouds" ELSE "Clear"]
      IN  IF fr.prefs.influence_weather
          THEN AdjustedTurbidityStep(
                 WeatherEffectsStep(OvercastStep(collected, sample), sample), sample)
          ELSE collected

\* Lines 103-131.
WeatherStep(fr, sample) ==
    IF sample = NoSample THEN fr
    ELSE
      LET collected ==
            [fr EXCEPT !.sample = sample,
                       !.temperature_c = sample.temperature_c,
                       !.weather_summary =
                           IF sample.cloud_cover > Unit \div 2 THEN "Clouds" ELSE "Clear"]
      IN  IF fr.prefs.influence_weather
          THEN AdjustedTurbidityStep(
                 OvercastStep(WeatherEffectsStep(collected, sample), sample), sample)
          ELSE collected

\* The index taken from the heuristics as derived, before the weather block
\* replaced their turbidity.
air_quality_index_before_weather(fr) ==
    derive_aqi(RunHeuristics(fr.lat_round, fr.lon_round, fr.now))

\* air_quality_index = _derive_aqi(heur) (line 133), whatever the toggles.
air_quality_index(fr) == derive_aqi(fr.heur)

\* The air quality stage applied whatever its toggle says.
AirQualityStep_untoggled(fr) ==
    Applied(fr, "air_quality", fr.horizon, fr.zenith,
            apply_air_quality_effect(fr.horizon, fr.zenith, air_quality_index(fr)))

\* Lines 133-136.
AirQualityStep(fr) ==
    IF fr.prefs.influence_air_quality
    THEN Applied(fr, "air_quality", fr.horizon, fr.zenith,
                 apply_air_quality_effect(fr.horizon, fr.zenith, air_quality_index(fr)))
    ELSE fr

\* Lines 138-151.
SkySnapshot(fr) ==
    [lat_deg |-> fr.lat_round, lon_deg |-> fr.lon_round,
     sun_altitude |-> fr.sun_altitude, regime |-> fr.regime,
     horizon |-> fr.horizon, zenith |-> fr.zenith,
     avg |-> lerp(fr.horizon, fr.zenith, Unit \div 2),
     heuristics |-> fr.heur,
     temperature_c |-> fr.temperature_c, weather_summary |-> fr.weather_summary,
     air_quality_index |-> air_quality_index(fr)]

HexDigits == <<"0", "1", "2", "3", "4", "5", "6", "7", "8", "9", "A", "B", "C", "D", "E", "F">>

\* The format :X of an 8-bit value, without the zero padding.
Hex2_unpadded(n) ==
    IF n < 16 THEN <<HexDigits[n + 1]>>
    ELSE <<HexDigits[(n \div 16) + 1], HexDigits[(n % 16) + 1]>>

\* The format :02X of an 8-bit value.
Hex2(n) == <<HexDigits[(n \div 16) + 1], HexDigits[(n % 16) + 1]>>

\* conv of to_srgb_hex: int(round(clamp(x) ** (1 / 2.2) * 255))
conv(x) == GammaEncode8(x)

\* The characters of f'#{conv(r):02X}{conv(g):02X}{conv(b):02X}'.
to_srgb_hex(c) == <<"#">> \o Hex2(conv(c.r)) \o Hex2(conv(c.g)) \o Hex2(conv(c.b))

\* InMemorySkyPresenter.present: the view model of a snapshot.
SkyViewModel(snapshot) ==
    [horizon_hex |-> to_srgb_hex(snapshot.horizon),
     zenith_hex |-> to_srgb_hex(snapshot.zenith),
     avg_hex |-> to_srgb_hex(snapshot.avg),
     regime |-> snapshot.regime,
     lat_deg |-> snapshot.lat_deg, lon_deg |-> snapshot.lon_deg,
     light_pollution |-> snapshot.heuristics.light_pollution,
     overcast |-> snapshot.heuristics.overcast,
     turbidity |-> snapshot.heuristics.turbidity,
     temperature_c |-> snapshot.temperature_c,
     weather_summary |-> snapshot.weather_summary,
     air_quality_index |-> snapshot.air_quality_index]

\* What a run was given: the instant, the location, the weather sample and
\* the toggles.
RunInputs(fr) ==
    [now |-> fr.now, location |-> fr.location, sample |-> fr.sample, prefs |-> fr.prefs]

NoRun == [phase |-> "none"]

Begin(t, observations, toggles) ==
    /\ pc[t] = "idle"
    /\ \E prefs \in toggles, obs \in observations :
         frame' = [frame EXCEPT ![t] =
                      TurbidityStep(LightPollutionStep(Loaded(prefs, obs[1], obs[2])))]
    /\ pc' = [pc EXCEPT ![t] = "weather"]
    /\ UNCHANGED <<latest, lastRun, ref, hIn, hOut, gw>>

Weather(t, samples) ==
    /\ pc[t] = "weather"
    /\ \E sample \in samples :
         frame' = [frame EXCEPT ![t] = WeatherStep(frame[t], sample)]
    /\ pc' = [pc EXCEPT ![t] = "finish"]
    /\ UNCHANGED <<latest, lastRun, ref, hIn, hOut, gw>>

\* The run as presented: presenter.present(snapshot), with the run's record.
Finish(t, capture) ==
    /\ pc[t] = "finish"
    /\ LET fr == AirQualityStep(frame[t])
           run == [phase |-> "presented", thread |-> t, inputs |-> RunInputs(fr), prefs |-> fr.prefs,
                   presents |-> fr.presents + 1, view |-> SkyViewModel(SkySnapshot(fr)),
                   base_horizon |-> fr.base_horizon, base_zenith |-> fr.base_zenith,
                   trace |-> fr.trace, snapshot |-> SkySnapshot(fr)]
       IN  /\ latest' = SkySnapshot(fr)
           /\ lastRun' = run
           /\ \/ ref' = ref
              \/ capture /\ ref = NoRun /\ ref' = run
    /\ pc' = [pc EXCEPT ![t] = "idle"]
    /\ frame' = [frame EXCEPT ![t] = IdleFrame]
    /\ UNCHANGED <<hIn, hOut, gw>>

NoCall == [fn |-> "none"]

\* No gateway under observation.
NoGateway == [kind |-> "none"]

Init ==
    /\ pc = [t \in Threads |-> "idle"]
    /\ frame = [t \in Threads |-> IdleFrame]
    /\ latest = NoSnapshot
    /\ lastRun = NoRun
    /\ ref = NoRun
    /\ hIn = NoCall
    /\ hOut = NoCall
    /\ gw = NoGateway

\* One use case, called again and again from one thread.
Next ==
    \/ Begin(1, Observations, AllPreferences)
    \/ Weather(1, AllSamples)
    \/ Finish(1, FALSE)

Spec == Init /\ [][Next]_vars

(***************************************************************************)
(* Two threads calling execute on the same use case and presenter, over a  *)
(* smaller set of inputs.  ref keeps one earlier presentation, chosen      *)
(* freely, to compare later ones with.                                     *)
(***************************************************************************)

ThreadInstants == {4, 8}

ThreadPreferences == {Preferences(TRUE, TRUE, TRUE), Preferences(FALSE, FALSE, FALSE)}

ThreadSamples == {NoSample, SampleCloudyHumid}

NextThreads ==
    \E t \in Threads :
       \/ Begin(t, ThreadInstants \X {FixedLocation}, ThreadPreferences)
       \/ Weather(t, ThreadSamples)
       \/ Finish(t, TRUE)

SpecThreads == Init /\ [][NextThreads]_vars

(***************************************************************************)
(* The pure functions, each applied once to an input drawn by the initial  *)
(* state.                                                                  *)
(***************************************************************************)

\* Sun altitudes lie in [-90, 90] degrees.
MaxAltitudeDeg == 90

\* Channel values of the colours given to a stage: black, just below the
\* deep-night luminance 0.01, mid, and full.
ZenithLevels == {0, 90, Unit}

HorizonLevels == {0, 6 * (Unit \div 10), Unit}

ZenithColors == {Color(r, g, b) : r \in ZenithLevels, g \in ZenithLevels, b \in ZenithLevels}

HorizonColors == {Color(r, g, b) : r \in HorizonLevels, g \in {0, Unit}, b \in {0, Unit}}

PollutionLevels == {-(Unit \div 10), 0, 35 * (Unit \div 100), 65 * (Unit \div 100), Unit}

TurbidityLevels == {2 * Unit, 22 * (Unit \div 10), 26 * (Unit \div 10), 3 * Unit, 32 * (Unit \div 10)}

HumidityLevels == {NoHumidity, 0, Unit \div 2, 7 * (Unit \div 10), 71 * (Unit \div 100),
                   9 * (Unit \div 10), Unit}

OvercastLevels == {-(Unit \div 10), 0, 3 * (Unit \div 10), Unit}

AqiLevels == {NoAqi, 0, 50, 51, 150, 151, 300, 500}

\* In-scattered radiance per channel, in fixed point: 0 to 0.1.
RadianceLevels == {0, 1, 10, 100, 400, 1000}

\* Heuristics given to _derive_aqi: inside the ranges derive produces, at
\* their ends, and outside them far enough for each clip to bind.
AqiTurbidityLevels ==
    {15 * (Unit \div 10), 2 * Unit, 22 * (Unit \div 10), 25 * (Unit \div 10),
     29785, 3 * Unit, 32 * (Unit \div 10), 4 * Unit}

AqiOvercastLevels == {-4 * Unit, 0, 665, 3333, Unit \div 2, Unit - 1, 5 * Unit, 6 * Unit}

AqiPollutionLevels ==
    {-(Unit \div 10), 0, 35 * (Unit \div 100), 5 * (Unit \div 10), 6183,
     65 * (Unit \div 100), Unit, 15 * (Unit \div 10)}

StageCalls(fn, params) ==
    {[fn |-> fn, h |-> h, z |-> z, p |-> p] :
        h \in HorizonColors, z \in ZenithColors, p \in params}

HarnessInputs ==
    {[fn |-> "derive", base |-> base] : base \in 0..(Unit - 1)}
    \cup {[fn |-> "classify_regime", altitude_deg |-> a] :
            a \in (-MaxAltitudeDeg * Deg)..(MaxAltitudeDeg * Deg)}
    \cup StageCalls("apply_light_pollution_effect", PollutionLevels)
    \cup StageCalls("apply_turbidity_effect", TurbidityLevels)
    \cup StageCalls("apply_weather_effects", HumidityLevels)
    \cup StageCalls("apply_overcast_effect", OvercastLevels)
    \cup StageCalls("apply_air_quality_effect", AqiLevels)
    \cup StageCalls("avg", {Unit \div 2})
    \cup {[fn |-> "atmospheric_sky_colors", inscattered |-> Color(r, g, b)] :
            r \in RadianceLevels, g \in RadianceLevels, b \in RadianceLevels}
    \cup {[fn |-> "_derive_aqi", heur |-> Heuristics(t, o, lp)] :
            t \in AqiTurbidityLevels, o \in AqiOvercastLevels, lp \in AqiPollutionLevels}
    \cup {[fn |-> "render_gradient", altitude_deg |-> a] : a \in StopAltitudes}
    \cup {[fn |-> "compute_transmittance", height |-> h, angle |-> a] :
            h \in RayHeights, a \in RayAngles}
    \cup {[fn |-> "sun_position", angles |-> a] : a \in SunAngles}

Returned(res) == hOut' = [fn |-> hIn.fn, res |-> res]

Pending(fn) == hIn.fn = fn /\ hOut = NoCall

CallDerive ==
    /\ Pending("derive")
    /\ Returned(derive(hIn.base))
    /\ UNCHANGED <<pc, frame, latest, lastRun, ref, hIn, gw>>

CallClassifyRegime ==
    /\ Pending("classify_regime")
    /\ Returned(classify_regime(hIn.altitude_deg))
    /\ UNCHANGED <<pc, frame, latest, lastRun, ref, hIn, gw>>

CallLightPollution ==
    /\ Pending("apply_light_pollution_effect")
    /\ Returned(apply_light_pollution_effect(hIn.h, hIn.z, hIn.p))
    /\ UNCHANGED <<pc, frame, latest, lastRun, ref, hIn, gw>>

CallTurbidity ==
    /\ Pending("apply_turbidity_effect")
    /\ Returned(apply_turbidity_effect(hIn.h, hIn.z, hIn.p))
    /\ UNCHANGED <<pc, frame, latest, lastRun, ref, hIn, gw>>

\* cloud_cover is not read by apply_weather_effects.
CallWeatherEffects ==
    /\ Pending("apply_weather_effects")
    /\ Returned(apply_weather_effects(hIn.h, hIn.z, 0, hIn.p))
    /\ UNCHANGED <<pc, frame, latest, lastRun, ref, hIn, gw>>

CallOvercast ==
    /\ Pending("apply_overcast_effect")
    /\ Returned(apply_overcast_effect(hIn.h, hIn.z, hIn.p))
    /\ UNCHANGED <<pc, frame, latest, lastRun, ref, hIn, gw>>

CallAirQuality ==
    /\ Pending("apply_air_quality_effect")
    /\ Returned(apply_air_quality_effect(hIn.h, hIn.z, hIn.p))
    /\ UNCHANGED <<pc, frame, latest, lastRun, ref, hIn, gw>>

\* avg = horizon.lerp(zenith, 0.5) (line 138)
CallAvg ==
    /\ Pending("avg")
    /\ Returned(lerp(hIn.h, hIn.z, hIn.p))
    /\ UNCHANGED <<pc, frame, latest, lastRun, ref, hIn, gw>>

\* The post-processing of a stop and its conversion back to linear.
CallSkyColors ==
    /\ Pending("atmospheric_sky_colors")
    /\ Returned(LinearFromRgb8(PostProcess(hIn.inscattered)))
    /\ UNCHANGED <<pc, frame, latest, lastRun, ref, hIn, gw>>

CallDeriveAqi ==
    /\ Pending("_derive_aqi")
    /\ Returned(derive_aqi(hIn.heur))
    /\ UNCHANGED <<pc, frame, latest, lastRun, ref, hIn, gw>>

CallRenderGradient ==
    /\ Pending("render_gradient")
    /\ Returned(GradientStops(hIn.altitude_deg))
    /\ UNCHANGED <<pc, frame, latest, lastRun, ref, hIn, gw>>

CallComputeTransmittance ==
    /\ Pending("compute_transmittance")
    /\ Returned(compute_transmittance(hIn.height, hIn.angle))
    /\ UNCHANGED <<pc, frame, latest, lastRun, ref, hIn, gw>>

CallSunPosition ==
    /\ Pending("sun_position")
    /\ Returned(SunPosition(hIn.angles.H, hIn.angles.phi, hIn.angles.dec))
    /\ UNCHANGED <<pc, frame, latest, lastRun, ref, hIn, gw>>

InitPure ==
    /\ pc = [t \in Threads |-> "idle"]
    /\ frame = [t \in Threads |-> IdleFrame]
    /\ latest = NoSnapshot
    /\ lastRun = NoRun
    /\ ref = NoRun
    /\ hIn \in HarnessInputs
    /\ hOut = NoCall
    /\ gw = NoGateway

NextPure ==
    \/ CallDerive
    \/ CallClassifyRegime
    \/ CallLightPollution
    \/ CallTurbidity
    \/ CallWeatherEffects
    \/ CallOvercast
    \/ CallAirQuality
    \/ CallAvg
    \/ CallSkyColors
    \/ CallDeriveAqi
    \/ CallRenderGradient
    \/ CallComputeTransmittance
    \/ CallSunPosition

SpecPure == InitPure /\ [][NextPure]_vars

(***************************************************************************)
(* cached_location_gateway.py: CachedLocationGateway.  gw holds _last, the *)
(* number of calls made and of calls passed on to the inner gateway, and   *)
(* the latest location the inner gateway returned.  hIn is the call: the   *)
(* preferences loaded and what the inner gateway returned, if it was       *)
(* asked; hOut is what current_location returned.                          *)
(***************************************************************************)

\* Calls of current_location in a behaviour.
MaxLocationCalls == 3

\* prefs.lat or prefs.lon is None; no coordinate is that large.
NoCoordinate == 999 * Micro

LocationPreferences(lat, lon, precision) ==
    [lat |-> lat, lon |-> lon, location_precision_deg |-> precision]

\* Preferences without coordinates, with a latitude only, and with both, at
\* precision 0 (which reads as 0.25), 0.25 and 1.0.
AllLocationPreferences ==
    {LocationPreferences(c[1], c[2], precision) :
        c \in {<<NoCoordinate, NoCoordinate>>, <<377749 * (Micro \div 10000), NoCoordinate>>,
               <<377749 * (Micro \div 10000), -1224194 * (Micro \div 10000)>>},
        precision \in {0, Micro \div 4, Micro}}

\* What the inner gateway may return.
InnerLocations ==
    {NoLocation, Location(104 * (Micro \div 10), 206 * (Micro \div 10)),
     Location(-3386 * (Micro \div 100), 15121 * (Micro \div 100))}

\* The inner gateway was not asked.
NotAsked == [asked |-> FALSE]

\* round(value / step) * step
round_coord(value, step) == PyRound(value, step) * step

\* getattr(prefs, 'location_precision_deg', 0.25) or 0.25
configured_precision(prefs) ==
    IF prefs.location_precision_deg = 0 THEN Micro \div 4 ELSE prefs.location_precision_deg

RoundedLocation(loc, prefs) ==
    Location(round_coord(loc.lat, configured_precision(prefs)),
             round_coord(loc.lon, configured_precision(prefs)))

LocationGatewayInit ==
    [kind |-> "location", last |-> NoLocation, calls |-> 0, inner_calls |-> 0,
     inner_latest |-> NoLocation]

\* _last overwritten by whatever the inner gateway returned, None included.
current_location_unsticky(g, prefs, inner_result) ==
    IF prefs.lat # NoCoordinate /\ prefs.lon # NoCoordinate
    THEN [gw |-> g, inner |-> NotAsked,
          res |-> RoundedLocation(Location(prefs.lat, prefs.lon), prefs)]
    ELSE [gw |-> [g EXCEPT !.last = inner_result, !.inner_calls = @ + 1],
          inner |-> inner_result,
          res |-> IF inner_result = NoLocation THEN NoLocation
                  ELSE RoundedLocation(inner_result, prefs)]

\* The location of the preferences kept in _last.
current_location_caching_prefs(g, prefs, inner_result) ==
    IF prefs.lat # NoCoordinate /\ prefs.lon # NoCoordinate
    THEN [gw |-> [g EXCEPT !.last = Location(prefs.lat, prefs.lon)], inner |-> NotAsked,
          res |-> RoundedLocation(Location(prefs.lat, prefs.lon), prefs)]
    ELSE LET last == IF inner_result # NoLocation THEN inner_result ELSE g.last
         IN  [gw |-> [g EXCEPT !.last = last, !.inner_calls = @ + 1],
              inner |-> inner_result,
              res |-> IF last = NoLocation THEN NoLocation
                      ELSE RoundedLocation(last, prefs)]

\* Lines 16-32.  inner_result is what self._inner.current_location() returns
\* if it is called.
current_location(g, prefs, inner_result) ==
    IF prefs.lat # NoCoordinate /\ prefs.lon # NoCoordinate
    THEN [gw |-> g, inner |-> NotAsked,
          res |-> RoundedLocation(Location(prefs.lat, prefs.lon), prefs)]
    ELSE LET last == IF inner_result # NoLocation THEN inner_result ELSE g.last
         IN  [gw |-> [g EXCEPT !.last = last, !.inner_calls = @ + 1],
              inner |-> inner_result,
              res |-> IF last = NoLocation THEN NoLocation
                      ELSE RoundedLocation(last, prefs)]

CurrentLocation ==
    /\ gw.kind = "location"
    /\ gw.calls < MaxLocationCalls
    /\ \E prefs \in AllLocationPreferences, inner_result \in InnerLocations :
         LET call == current_location(gw, prefs, inner_result)
         IN  /\ gw' = [call.gw EXCEPT
                         !.calls = @ + 1,
                         !.inner_latest =
                             IF call.inner # NotAsked /\ call.inner # NoLocation
                             THEN call.inner ELSE @]
             /\ hIn' = [fn |-> "current_location", prefs |-> prefs, inner |-> call.inner]
             /\ hOut' = [fn |-> "current_location", res |-> call.res]
    /\ UNCHANGED <<pc, frame, latest, lastRun, ref>>

InitLocation ==
    /\ pc = [t \in Threads |-> "idle"]
    /\ frame = [t \in Threads |-> IdleFrame]
    /\ latest = NoSnapshot
    /\ lastRun = NoRun
    /\ ref = NoRun
    /\ hIn = NoCall
    /\ hOut = NoCall
    /\ gw = LocationGatewayInit

NextLocation == CurrentLocation

SpecLocation == InitLocation /\ [][NextLocation]_vars

(***************************************************************************)
(* open_meteo_weather_gateway.py: OpenMeteoWeatherGateway.  gw holds       *)
(* _cache, the clock read by now_utc() (in ticks of five minutes) and the  *)
(* number of calls made.  hIn is the call: its coordinates, its instant,   *)
(* the cache it found and what the request did, if one was made; hOut is   *)
(* how sample ended.                                                       *)
(***************************************************************************)

\* Calls of sample in a behaviour.
MaxWeatherCalls == 3

\* The latest instant of a call.
MaxClock == 4

\* ttl_minutes = 10, in ticks.
ttl == 2

\* The "current" object of a response: percentages, metres and degrees.
ResponseBodies ==
    {[cloud_cover |-> 0, relative_humidity_2m |-> 50, visibility |-> 24000,
      temperature_2m |-> 20],
     [cloud_cover |-> 80, relative_humidity_2m |-> 90, visibility |-> 8000,
      temperature_2m |-> 12]}

\* The exceptions of line 39.
CaughtErrors == {"URLError", "TimeoutError", "OSError", "JSONDecodeError"}

\* What urlopen and json.load can raise: the above; UnicodeDecodeError, of
\* json.load on a body that is not UTF-8; http.client.IncompleteRead, of
\* resp.read() on a body cut short.  Neither is a subclass of the above.
FetchErrors == CaughtErrors \cup {"UnicodeDecodeError", "IncompleteRead"}

Responses ==
    {[outcome |-> "ok", body |-> b] : b \in ResponseBodies}
    \cup {[outcome |-> e, body |-> CHOOSE b \in ResponseBodies : TRUE] : e \in FetchErrors}

\* The places sample is called for.
WeatherPlaces == {FixedLocation, Location(25 * Micro, 1215 * (Micro \div 10))}

\* _cache is None.
NoEntry == [empty |-> TRUE]

WeatherGatewayInit == [kind |-> "weather", cache |-> NoEntry, clock |-> 0, calls |-> 0]

\* Lines 41-53; lat and lon are those of the request URL.
ParsedSample(body, now, lat, lon) ==
    [cloud_cover |-> Max(0, Min(Unit, body.cloud_cover * (Unit \div 100))),
     visibility_km |-> body.visibility \div 1000,
     rel_humidity |-> Max(0, Min(Unit, body.relative_humidity_2m * (Unit \div 100))),
     temperature_c |-> body.temperature_2m,
     timestamp |-> now,
     lat |-> lat, lon |-> lon]

\* Lines 28-55.  response is what the request does if it is made.
sample(g, lat, lon, now, response) ==
    IF g.cache # NoEntry /\ g.cache.expires > now
    THEN [gw |-> g, fetch |-> "none", ended |-> "returned", res |-> g.cache.sample]
    ELSE IF response.outcome \in CaughtErrors
    THEN [gw |-> g, fetch |-> response.outcome, ended |-> "returned None",
          res |-> NoSample]
    ELSE IF response.outcome # "ok"
    THEN [gw |-> g, fetch |-> response.outcome, ended |-> "raised", res |-> NoSample]
    ELSE LET made == ParsedSample(response.body, now, lat, lon)
         IN  [gw |-> [g EXCEPT !.cache = [sample |-> made, expires |-> now + ttl]],
              fetch |-> "ok", ended |-> "returned", res |-> made]

CallSample ==
    /\ gw.kind = "weather"
    /\ gw.calls < MaxWeatherCalls
    /\ \E place \in WeatherPlaces, now \in gw.clock..MaxClock, response \in Responses :
         LET call == sample(gw, place.lat, place.lon, now, response)
         IN  /\ gw' = [call.gw EXCEPT !.calls = @ + 1, !.clock = now]
             /\ hIn' = [fn |-> "sample", lat |-> place.lat, lon |-> place.lon,
                        now |-> now, cache |-> gw.cache, fetch |-> call.fetch]
             /\ hOut' = [fn |-> "sample", ended |-> call.ended, res |-> call.res]
    /\ UNCHANGED <<pc, frame, latest, lastRun, ref>>

InitWeather ==
    /\ pc = [t \in Threads |-> "idle"]
    /\ frame = [t \in Threads |-> IdleFrame]
    /\ latest = NoSnapshot
    /\ lastRun = NoRun
    /\ ref = NoRun
    /\ hIn = NoCall
    /\ hOut = NoCall
    /\ gw = WeatherGatewayInit

NextWeather == CallSample

SpecWeather == InitWeather /\ [][NextWeather]_vars

(***************************************************************************)
(* scheduler.py: RepeatingScheduler, driven as app_orchestrator.py drives  *)
(* it: create_scheduler(tick, initial_interval=1), start(), ui.run(),      *)
(* stop().  A Timer is a record holding the interval it was created with   *)
(* and the position of its thread; one statement of _run, _schedule and    *)
(* stop is one step, so the timer threads and the main thread interleave   *)
(* between statements.                                                     *)
(***************************************************************************)

MaxTimers == 4

initial_interval == 1

TwilightInterval == 90

DayNightInterval == 900

Regimes == {"DAY", "LOW_SUN", "CIVIL", "NAUTICAL", "ASTRONOMICAL", "NIGHT"}

TwilightRegimes == {"LOW_SUN", "CIVIL", "NAUTICAL", "ASTRONOMICAL"}

\* What a tick does: execute() raised before a view model was read, or the
\* view model read from the presenter has this regime.
TickOutcomes == Regimes \cup {"raised"}

tick_interval(regime) ==
    IF regime \in TwilightRegimes THEN TwilightInterval ELSE DayNightInterval

\* tick: the interval is assigned inside the callback, after ui.update.
tick(g, outcome) ==
    IF outcome = "raised" THEN g
    ELSE [g EXCEPT !.interval = tick_interval(outcome)]

\* threading.Timer(interval, self._run), with what the scheduler looked
\* like when it was made: the timer whose _run made it (0 for start()), the
\* tick it follows and where stop() stood.
Timer(interval, by, after, born) ==
    [interval |-> interval, state |-> "new", by |-> by, after |-> after,
     born |-> born, began |-> "never", outcome |-> "none"]

SchedulerInit ==
    [kind |-> "scheduler", interval |-> initial_interval, timer |-> 0,
     stopped |-> FALSE, timers |-> <<>>, main |-> "created"]

\* The interval _schedule hands to the new Timer, as firing timer i would
\* have it had it been read when that timer was made.
schedule_interval_before_callback(g, i) == g.timers[i].interval

\* _schedule line 23: self.interval is read when the Timer is made.
schedule_interval(g, i) == g.interval

\* Timer.cancel(): sets the finished event; a thread past its wait goes on.
cancel(g, j) ==
    IF g.timers[j].state \in {"new", "waiting"}
    THEN [g EXCEPT !.timers[j].state = "cancelled"]
    ELSE g

\* start(): _schedule() on the main thread, before any timer exists.
Start ==
    /\ gw.kind = "scheduler"
    /\ gw.main = "created"
    /\ gw' = [gw EXCEPT !.timers = <<[Timer(gw.interval, 0, "start", gw.main)
                                        EXCEPT !.state = "waiting"]>>,
                        !.timer = 1, !.main = "ui"]
    /\ UNCHANGED <<pc, frame, latest, lastRun, ref, hIn, hOut>>

\* Timer.run: the wait is over and the finished event is not set.
Fire(i) ==
    /\ gw.timers[i].state = "waiting"
    /\ gw.stopped \/ Len(gw.timers) < MaxTimers
    /\ gw' = [gw EXCEPT !.timers[i].state = "fired"]
    /\ UNCHANGED <<pc, frame, latest, lastRun, ref, hIn, hOut>>

\* _run without its guard.
run_returns_early_never(g) == FALSE

\* _run lines 15-16: if self._stopped: return.
run_returns_early(g) == g.stopped

CheckStopped(i) ==
    /\ gw.timers[i].state = "fired"
    /\ gw' = [gw EXCEPT !.timers[i].state =
                            IF run_returns_early(gw) THEN "done" ELSE "checked"]
    /\ UNCHANGED <<pc, frame, latest, lastRun, ref, hIn, hOut>>

\* _run line 18: self.callback() begins.
BeginCallback(i) ==
    /\ gw.timers[i].state = "checked"
    /\ gw' = [gw EXCEPT !.timers[i].state = "callback",
                        !.timers[i].began = gw.main]
    /\ UNCHANGED <<pc, frame, latest, lastRun, ref, hIn, hOut>>

\* _run with the call outside any try: an exception ends the thread.
after_callback_unprotected(outcome) ==
    IF outcome = "raised" THEN "done" ELSE "finally"

\* _run lines 17-20: try: self.callback() finally: self._schedule().
after_callback(outcome) == "finally"

\* The callback returns or raises; either way the finally clause is next.
EndCallback(i) ==
    /\ gw.timers[i].state = "callback"
    /\ \E outcome \in TickOutcomes :
         gw' = [tick(gw, outcome) EXCEPT !.timers[i].state = after_callback(outcome),
                                         !.timers[i].outcome = outcome]
    /\ UNCHANGED <<pc, frame, latest, lastRun, ref, hIn, hOut>>

\* _schedule line 23: self._timer = threading.Timer(self.interval, self._run).
MakeTimer(i) ==
    /\ gw.timers[i].state = "finally"
    /\ gw' = [gw EXCEPT !.timers = Append([gw.timers EXCEPT ![i].state = "made"],
                                          Timer(schedule_interval(gw, i), i,
                                                gw.timers[i].outcome, gw.main)),
                        !.timer = Len(gw.timers) + 1]
    /\ UNCHANGED <<pc, frame, latest, lastRun, ref, hIn, hOut>>

\* _schedule line 25: self._timer.start(); a cancelled Timer's thread ends
\* at once without calling its function.
StartTimer(i) ==
    /\ gw.timers[i].state = "made"
    /\ gw' = [gw EXCEPT !.timers[i].state = "done",
                        !.timers[gw.timer].state =
                            IF @ = "new" THEN "waiting" ELSE @]
    /\ UNCHANGED <<pc, frame, latest, lastRun, ref, hIn, hOut>>

\* stop line 31: self._stopped = True.
StopSetFlag ==
    /\ gw.kind = "scheduler"
    /\ gw.main = "ui"
    /\ gw' = [gw EXCEPT !.stopped = TRUE, !.main = "stopping"]
    /\ UNCHANGED <<pc, frame, latest, lastRun, ref, hIn, hOut>>

\* stop lines 32-33: if self._timer: self._timer.cancel(); stop returns.
StopCancel ==
    /\ gw.kind = "scheduler"
    /\ gw.main = "stopping"
    /\ gw' = [(IF gw.timer = 0 THEN gw ELSE cancel(gw, gw.timer))
                EXCEPT !.main = "stopped"]
    /\ UNCHANGED <<pc, frame, latest, lastRun, ref, hIn, hOut>>

TimerStep(i) ==
    \/ Fire(i)
    \/ CheckStopped(i)
    \/ BeginCallback(i)
    \/ EndCallback(i)
    \/ MakeTimer(i)
    \/ StartTimer(i)

InitScheduler ==
    /\ pc = [t \in Threads |-> "idle"]
    /\ frame = [t \in Threads |-> IdleFrame]
    /\ latest = NoSnapshot
    /\ lastRun = NoRun
    /\ ref = NoRun
    /\ hIn = NoCall
    /\ hOut = NoCall
    /\ gw = SchedulerInit

NextScheduler ==
    \/ Start
    \/ StopSetFlag
    \/ StopCancel
    \/ \E i \in 1..MaxTimers :
         /\ gw.kind = "scheduler"
         /\ i <= Len(gw.timers)
         /\ TimerStep(i)

SpecScheduler == InitScheduler /\ [][NextScheduler]_vars

\* The timer threads are scheduled by the operating system and a waiting
\* Timer's interval elapses: every step of a timer thread that stays
\* possible is eventually taken.
SchedulerFairness ==
    \A i \in 1..MaxTimers :
        WF_vars(gw.kind = "scheduler" /\ i <= Len(gw.timers) /\ TimerStep(i))

SpecSchedulerFair == SpecScheduler /\ SchedulerFairness

(***************************************************************************)
(* app_orchestrator.py: one tick on the timer thread (thread 1) and one    *)
(* preference toggle on the main thread (thread 2, menu_app._toggle_attr   *)
(* and then on_prefs_changed), in any interleaving.  Both call execute on  *)
(* the container's use case, which loads the preferences when it begins    *)
(* and presents to the one presenter the container keeps; both then pass   *)
(* presenter.latest to ui.update.                                          *)
(***************************************************************************)

NoView == [none |-> TRUE]

ToggleAttrs ==
    {"influence_light_pollution", "influence_weather", "influence_air_quality"}

\* _toggle_attr lines 117-123: setattr(p, attr, not current).
toggled(prefs, attr) == [prefs EXCEPT ![attr] = ~@]

\* Both the tick and the handler are between their first and last statement.
BothInProgress(todo) == todo[1] = "running" /\ todo[2] \in {"changed", "running"}

AppInit(prefs) ==
    [kind |-> "app", prefs |-> prefs, ui |-> NoView,
     todo |-> <<"tick", "menu">>, overlap |-> FALSE]

\* What one thread's turn leaves of the bookkeeping.
Turn(g, t, position) ==
    LET todo == [g.todo EXCEPT ![t] = position]
    IN  [g EXCEPT !.todo = todo, !.overlap = @ \/ BothInProgress(todo)]

\* _toggle_attr lines 117-126: load, flip, save, then on_prefs_changed().
TogglePreference ==
    /\ gw.kind = "app"
    /\ gw.todo[2] = "menu"
    /\ \E attr \in ToggleAttrs :
         gw' = [Turn(gw, 2, "changed") EXCEPT !.prefs = toggled(gw.prefs, attr)]
    /\ UNCHANGED <<pc, frame, latest, lastRun, ref, hIn, hOut>>

\* execute line 40 and on: prefs = self.prefs.load(), up to the weather
\* provider's call.
ExecuteBegin(t) ==
    /\ gw.kind = "app"
    /\ gw.todo[t] = IF t = 1 THEN "tick" ELSE "changed"
    /\ pc[t] = "idle"
    /\ \E obs \in ThreadInstants \X {FixedLocation} :
         frame' = [frame EXCEPT ![t] =
                      TurbidityStep(LightPollutionStep(Loaded(gw.prefs, obs[1], obs[2])))]
    /\ pc' = [pc EXCEPT ![t] = "weather"]
    /\ gw' = Turn(gw, t, "running")
    /\ UNCHANGED <<latest, lastRun, ref, hIn, hOut>>

ExecuteWeather(t) ==
    /\ gw.kind = "app"
    /\ pc[t] = "weather"
    /\ \E given \in ThreadSamples :
         frame' = [frame EXCEPT ![t] = WeatherStep(frame[t], given)]
    /\ pc' = [pc EXCEPT ![t] = "finish"]
    /\ UNCHANGED <<latest, lastRun, ref, hIn, hOut, gw>>

\* execute's last statement: self.presenter.present(snapshot).
ExecutePresent(t) ==
    /\ gw.kind = "app"
    /\ pc[t] = "finish"
    /\ LET fr == AirQualityStep(frame[t])
       IN  /\ latest' = SkySnapshot(fr)
           /\ lastRun' = [phase |-> "presented", thread |-> t, inputs |-> RunInputs(fr),
                          prefs |-> fr.prefs, view |-> SkyViewModel(SkySnapshot(fr))]
    /\ pc' = [pc EXCEPT ![t] = "update"]
    /\ frame' = [frame EXCEPT ![t] = IdleFrame]
    /\ UNCHANGED <<ref, hIn, hOut, gw>>

\* tick lines 50-53 and on_prefs_changed lines 39-41: ui.update(presenter.latest).
UpdateUi(t) ==
    /\ gw.kind = "app"
    /\ pc[t] = "update"
    /\ gw' = [Turn(gw, t, "done") EXCEPT !.ui = SkyViewModel(latest)]
    /\ pc' = [pc EXCEPT ![t] = "idle"]
    /\ UNCHANGED <<frame, latest, lastRun, ref, hIn, hOut>>

InitOrchestrator ==
    /\ pc = [t \in Threads |-> "idle"]
    /\ frame = [t \in Threads |-> IdleFrame]
    /\ latest = NoSnapshot
    /\ lastRun = NoRun
    /\ ref = NoRun
    /\ hIn = NoCall
    /\ hOut = NoCall
    /\ \E prefs \in ThreadPreferences : gw = AppInit(prefs)

NextOrchestrator ==
    \/ TogglePreference
    \/ \E t \in Threads :
         \/ ExecuteBegin(t)
         \/ ExecuteWeather(t)
         \/ ExecutePresent(t)
         \/ UpdateUi(t)

SpecOrchestrator == InitOrchestrator /\ [][NextOrchestrator]_vars

(***************************************************************************)
(* Properties of a presented run                                           *)
(***************************************************************************)

Presented(run) == run.phase = "presented"

StagesOf(run) == [i \in 1..Len(run.trace) |-> run.trace[i].stage]

\* The place of a stage in the order light pollution, turbidity,
\* weather/haze, overcast, air quality.
StageRank(stage) ==
    CASE stage = "light_pollution" -> 1
      [] stage = "turbidity" -> 2
      [] stage = "weather" -> 3
      [] stage = "overcast" -> 4
      [] stage = "air_quality" -> 6

\* As StageRank, with a turbidity stage that follows the weather/haze stage
\* (the one re-applied with the adjusted turbidity) placed after overcast.
ReappliedRank(trace, i) ==
    IF trace[i].stage = "turbidity" /\ \E j \in 1..(i - 1) : trace[j].stage = "weather"
    THEN 5
    ELSE StageRank(trace[i].stage)

\* Each stage was given the colours the stage before it returned (the first
\* one the base colours), and the snapshot holds what the last one returned.
Chained(run) ==
    LET n == Len(run.trace)
    IN  /\ \A i \in 1..n :
             /\ run.trace[i].hin = IF i = 1 THEN run.base_horizon ELSE run.trace[i - 1].hout
             /\ run.trace[i].zin = IF i = 1 THEN run.base_zenith ELSE run.trace[i - 1].zout
        /\ run.snapshot.horizon = IF n = 0 THEN run.base_horizon ELSE run.trace[n].hout
        /\ run.snapshot.zenith = IF n = 0 THEN run.base_zenith ELSE run.trace[n].zout

\* The humidity adjustment of lines 122-124 changes the turbidity.
TurbidityAdjusted(run) ==
    /\ run.prefs.influence_weather
    /\ run.inputs.sample # NoSample
    /\ run.inputs.sample.rel_humidity > 7 * (Unit \div 10)

\* C1 as claimed: the stages of a run are applied in the order light
\* pollution, turbidity, weather/haze, overcast, air quality, each on the
\* previous stage's output; no stage runs twice, none after a later one.
C1_StagesInOrderOnce ==
    Presented(lastRun) =>
        /\ \A i, j \in 1..Len(lastRun.trace) :
             i < j => StageRank(lastRun.trace[i].stage) < StageRank(lastRun.trace[j].stage)
        /\ Chained(lastRun)

\* C1 as amended: the same order, each stage on the previous stage's output,
\* except that the turbidity stage is applied a second time, after overcast
\* and before air quality, exactly when the weather toggle is on and the
\* sample's humidity (above 0.7) changes the turbidity; no other stage runs
\* twice.
C1_StagesInOrderTurbidityReapplied ==
    Presented(lastRun) =>
        /\ \A i, j \in 1..Len(lastRun.trace) :
             i < j => ReappliedRank(lastRun.trace, i) < ReappliedRank(lastRun.trace, j)
        /\ (\E i \in 1..Len(lastRun.trace) : ReappliedRank(lastRun.trace, i) = 5)
              <=> TurbidityAdjusted(lastRun)
        /\ Chained(lastRun)

C1_Witness ==
    /\ Presented(lastRun)
    /\ StagesOf(lastRun) = <<"light_pollution", "turbidity", "weather", "overcast",
                             "turbidity", "air_quality">>
    /\ lastRun.trace[5].hout # lastRun.trace[5].hin

\* C2: a disabled toggle skips its stages, and the colours pass unchanged to
\* the next stage: no light pollution stage with influence_light_pollution
\* off; no turbidity, weather/haze or overcast stage with influence_weather
\* off, sample or not; no air quality stage with influence_air_quality off.
C2_DisabledStagesSkipped ==
    Presented(lastRun) =>
        LET applied == {lastRun.trace[i].stage : i \in 1..Len(lastRun.trace)}
        IN  /\ ~lastRun.prefs.influence_light_pollution => "light_pollution" \notin applied
            /\ ~lastRun.prefs.influence_weather =>
                  applied \cap {"turbidity", "weather", "overcast"} = {}
            /\ ~lastRun.prefs.influence_air_quality => "air_quality" \notin applied
            /\ Chained(lastRun)

C2_Witness ==
    /\ Presented(lastRun)
    /\ ~lastRun.prefs.influence_weather
    /\ lastRun.prefs.influence_light_pollution
    /\ lastRun.prefs.influence_air_quality
    /\ lastRun.inputs.sample = SampleCloudyHumid
    /\ StagesOf(lastRun) = <<"light_pollution", "air_quality">>
    /\ lastRun.trace[2].hin = lastRun.trace[1].hout
    /\ lastRun.trace[1].hout # lastRun.base_horizon

AllInfluencesOff(run) ==
    /\ ~run.prefs.influence_light_pollution
    /\ ~run.prefs.influence_weather
    /\ ~run.prefs.influence_air_quality

\* C3: with the three toggles off the presented pair is the base scattering
\* pair of the sun altitude; two such runs at the same altitude present the
\* same pair, whatever their heuristics and weather samples.
C3_MinimalModeIsBase ==
    /\ (Presented(lastRun) /\ AllInfluencesOff(lastRun)) =>
          <<latest.horizon, latest.zenith>> = atmospheric_sky_colors(latest.sun_altitude)
    /\ (/\ Presented(lastRun) /\ AllInfluencesOff(lastRun)
        /\ Presented(ref) /\ AllInfluencesOff(ref)
        /\ ref.snapshot.sun_altitude = lastRun.snapshot.sun_altitude) =>
          /\ ref.snapshot.horizon = lastRun.snapshot.horizon
          /\ ref.snapshot.zenith = lastRun.snapshot.zenith

C3_Witness ==
    /\ Presented(lastRun) /\ AllInfluencesOff(lastRun)
    /\ Presented(ref) /\ AllInfluencesOff(ref)
    /\ ref.snapshot.sun_altitude = lastRun.snapshot.sun_altitude
    /\ ref.snapshot.heuristics # lastRun.snapshot.heuristics
    /\ ref.inputs.sample = NoSample
    /\ lastRun.inputs.sample = SampleCloudyHumid
    /\ lastRun.snapshot.zenith.b > 0

\* C7: the snapshot is a function of the run's inputs: a run presents what
\* an earlier run with the same instant, sample and toggles presented,
\* whatever ran in between and on whichever thread.
C7_SameInputsSameSnapshot ==
    (Presented(ref) /\ Presented(lastRun) /\ ref.inputs = lastRun.inputs) =>
        ref.snapshot = lastRun.snapshot

C7_Witness ==
    /\ Presented(ref) /\ Presented(lastRun)
    /\ ref.inputs = lastRun.inputs
    /\ ref.thread = 1 /\ lastRun.thread = 2
    /\ ref.inputs.prefs.influence_weather
    /\ ref.inputs.sample = SampleCloudyHumid
    /\ pc[1] = "finish"
    /\ RunInputs(frame[1]) # ref.inputs

\* C8 as claimed: the heuristics of every presented snapshot have turbidity
\* in [2.2, 3.0], overcast in [0, 1) and light_pollution in [0.35, 0.65].
C8_SnapshotHeuristicsInDeriveRange ==
    Presented(lastRun) =>
        /\ latest.heuristics.turbidity >= 22 * (Unit \div 10)
        /\ latest.heuristics.turbidity <= 3 * Unit
        /\ latest.heuristics.overcast >= 0 /\ latest.heuristics.overcast < Unit
        /\ latest.heuristics.light_pollution >= 35 * (Unit \div 100)
        /\ latest.heuristics.light_pollution <= 65 * (Unit \div 100)

\* C8 as amended: turbidity in [2.2, 3.2], above 3.0 only when the weather
\* toggle is on and the sample's humidity is above 0.7; overcast in [0, 1)
\* and light_pollution in [0.35, 0.65].
C8_SnapshotHeuristicsInAdjustedRange ==
    Presented(lastRun) =>
        /\ latest.heuristics.turbidity >= 22 * (Unit \div 10)
        /\ latest.heuristics.turbidity <= 32 * (Unit \div 10)
        /\ latest.heuristics.turbidity > 3 * Unit => TurbidityAdjusted(lastRun)
        /\ latest.heuristics.overcast >= 0 /\ latest.heuristics.overcast < Unit
        /\ latest.heuristics.light_pollution >= 35 * (Unit \div 100)
        /\ latest.heuristics.light_pollution <= 65 * (Unit \div 100)

C8_Witness ==
    /\ Presented(lastRun)
    /\ latest.heuristics.turbidity = 32 * (Unit \div 10)
    /\ lastRun.inputs.sample = SampleCloudyHumid

(***************************************************************************)
(* Properties of the pure functions                                        *)
(***************************************************************************)

Called(fn) == hOut # NoCall /\ hOut.fn = fn

StageFunctions ==
    {"apply_light_pollution_effect", "apply_turbidity_effect", "apply_weather_effects",
     "apply_overcast_effect", "apply_air_quality_effect"}

CalledStage == hOut # NoCall /\ hOut.fn \in StageFunctions

InUnitRange(c) == c.r \in 0..Unit /\ c.g \in 0..Unit /\ c.b \in 0..Unit

\* C4: every channel of every colour of the pipeline lies in [0, 1]: the
\* base colours out of the tone mapper, the pair each compositor stage
\* returns for any parameter, and avg.
C4_ChannelsInUnitRange ==
    /\ CalledStage => InUnitRange(hOut.res[1]) /\ InUnitRange(hOut.res[2])
    /\ Called("avg") => InUnitRange(hOut.res)
    /\ Called("atmospheric_sky_colors") => InUnitRange(hOut.res)

\* The warm shift of the turbidity stage reddens a black horizon and would
\* take the zenith's full red channel above 1; the clamp holds it at 1.
C4_Witness ==
    /\ Called("apply_turbidity_effect")
    /\ hIn.p = 3 * Unit
    /\ hIn.h = Color(0, 0, 0)
    /\ hIn.z = Color(Unit, 0, 0)
    /\ hOut.res[1].r = 800
    /\ hOut.res[2].r = Unit

\* The parameter of a stage call is at its neutral value.
NeutralParameter ==
    CASE hIn.fn = "apply_light_pollution_effect" -> hIn.p <= 0
      [] hIn.fn = "apply_turbidity_effect" -> hIn.p <= 22 * (Unit \div 10)
      [] hIn.fn = "apply_weather_effects" ->
            hIn.p = NoHumidity \/ hIn.p <= 7 * (Unit \div 10)
      [] hIn.fn = "apply_overcast_effect" -> hIn.p <= 0
      [] hIn.fn = "apply_air_quality_effect" -> hIn.p = NoAqi \/ hIn.p <= 50

\* C5: a compositor stage whose driving parameter is neutral (pollution
\* level <= 0, turbidity <= 2.2, humidity absent or <= 0.7, overcast <= 0,
\* AQI absent or <= 50) returns exactly the colours it was given.
C5_NeutralParameterIsNoOp ==
    (CalledStage /\ NeutralParameter) => hOut.res = <<hIn.h, hIn.z>>

\* Humidity at the threshold 0.7, on colours the haze would change.
C5_Witness ==
    /\ Called("apply_weather_effects")
    /\ hIn.p = 7 * (Unit \div 10)
    /\ hIn.h = Color(6 * (Unit \div 10), Unit, 0)
    /\ hIn.z = Color(Unit, 0, Unit)
    /\ hOut.res = <<hIn.h, hIn.z>>

amber == Color(Unit, 65 * (Unit \div 100), 35 * (Unit \div 100))

\* c blended toward amber by num/100 of the pollution level.
TowardAmber(c, num, level) ==
    LET t == RDiv(level * num, 100)
    IN  Color(c.r + RDiv((amber.r - c.r) * t, Unit),
              c.g + RDiv((amber.g - c.g) * t, Unit),
              c.b + RDiv((amber.b - c.b) * t, Unit))

\* C6: with a pollution level above 0, a zenith of luminance below 0.01 is
\* returned unchanged and the horizon is blended toward amber
\* (1.0, 0.65, 0.35) by 0.18 * level; otherwise the horizon is blended by
\* 0.12 * level and the zenith by 0.03 * level.
C6_LightPollutionBlends ==
    (Called("apply_light_pollution_effect") /\ hIn.p > 0) =>
        IF 2126 * hIn.z.r + 7152 * hIn.z.g + 722 * hIn.z.b < 100 * Unit
        THEN /\ hOut.res[2] = hIn.z
             /\ hOut.res[1] = TowardAmber(hIn.h, 18, hIn.p)
        ELSE /\ hOut.res[2] = TowardAmber(hIn.z, 3, hIn.p)
             /\ hOut.res[1] = TowardAmber(hIn.h, 12, hIn.p)

\* A dim zenith that is not black, under a black horizon.
C6_Witness ==
    /\ Called("apply_light_pollution_effect")
    /\ hIn.p = 65 * (Unit \div 100)
    /\ hIn.z = Color(90, 90, 90)
    /\ hIn.h = Color(0, 0, 0)
    /\ hOut.res[2] = hIn.z
    /\ hOut.res[1] = Color(1170, 761, 410)

\* x mod m for m > 0, as x minus the whole multiples of m below it.
ModOf(x, m) == x - m * (x \div m)

\* C9: for a seed value base in [0, 1), turbidity = 2.2 + (base mod 0.8) in
\* [2.2, 3.0], overcast = (base * 1.37) mod 1.0 in [0, 1), light_pollution =
\* 0.35 + ((base * 0.73) mod 0.3) in [0.35, 0.65]; no modulo is negative.
C9_DeriveRanges ==
    Called("derive") =>
        LET base == hIn.base
            res == hOut.res
        IN  /\ res.turbidity = 22 * (Unit \div 10) + ModOf(base, 8 * (Unit \div 10))
            /\ res.turbidity >= 22 * (Unit \div 10) /\ res.turbidity <= 3 * Unit
            /\ res.overcast = ModOf(RDiv(base * 137, 100), Unit)
            /\ res.overcast >= 0 /\ res.overcast < Unit
            /\ res.light_pollution =
                  35 * (Unit \div 100) + ModOf(RDiv(base * 73, 100), 3 * (Unit \div 10))
            /\ res.light_pollution >= 35 * (Unit \div 100)
            /\ res.light_pollution <= 65 * (Unit \div 100)

\* A seed value of 0.9, where each of the three moduli wraps.
C9_Witness ==
    /\ Called("derive")
    /\ hIn.base = 9 * (Unit \div 10)
    /\ hOut.res.turbidity = 23 * (Unit \div 10)
    /\ hOut.res.overcast = 2330
    /\ hOut.res.light_pollution = 4070

\* C10: classify_regime maps every altitude to exactly one regime: DAY for
\* a >= 10, LOW_SUN for 0 <= a < 10, CIVIL for -6 <= a < 0, NAUTICAL for
\* -12 <= a < -6, ASTRONOMICAL for -18 <= a < -12, NIGHT for a < -18; each
\* boundary belongs to the brighter band.
C10_RegimeBands ==
    Called("classify_regime") =>
        LET a == hIn.altitude_deg
        IN  /\ hOut.res \in {"DAY", "LOW_SUN", "CIVIL", "NAUTICAL", "ASTRONOMICAL", "NIGHT"}
            /\ hOut.res = "DAY" <=> a >= 10 * Deg
            /\ hOut.res = "LOW_SUN" <=> (a >= 0 /\ a < 10 * Deg)
            /\ hOut.res = "CIVIL" <=> (a >= -6 * Deg /\ a < 0)
            /\ hOut.res = "NAUTICAL" <=> (a >= -12 * Deg /\ a < -6 * Deg)
            /\ hOut.res = "ASTRONOMICAL" <=> (a >= -18 * Deg /\ a < -12 * Deg)
            /\ hOut.res = "NIGHT" <=> a < -18 * Deg

\* The boundary -6 belongs to the civil band.
C10_Witness ==
    /\ Called("classify_regime")
    /\ hIn.altitude_deg = -6 * Deg
    /\ hOut.res = "CIVIL"

\* C11: _derive_aqi returns round(clamp(raw, 0, 500)) for raw = (0.7 *
\* t_norm + 0.3 * lp_norm) * 300 * (1 - 0.2 * overcast), t_norm =
\* clip((turbidity - 2.0) / 1.2, 0, 1), lp_norm = clip(light_pollution, 0,
\* 1): an integer in [0, 500], the same whether the clamp comes before the
\* rounding or after it.
C11_AqiClampedRound ==
    Called("_derive_aqi") =>
        LET heur == hIn.heur
            t_norm == Max(0, Min(Unit, RDiv((heur.turbidity - 2 * Unit) * 10, 12)))
            lp_norm == Max(0, Min(Unit, heur.light_pollution))
            raw == RDiv((210 * t_norm + 90 * lp_norm) * 100, Unit)
            discounted == raw + RDiv(-(raw * heur.overcast), 5 * Unit)
        IN  /\ hOut.res \in 0..500
            /\ hOut.res = PyRound(Max(0, Min(500 * 100, discounted)), 100)
            /\ hOut.res = Max(0, Min(500, PyRound(discounted, 100)))

\* A negative overcast takes raw to 540, which the clamp holds at 500.
C11_Witness ==
    /\ Called("_derive_aqi")
    /\ hIn.heur = Heuristics(32 * (Unit \div 10), -4 * Unit, Unit)
    /\ derive_aqi_unclamped(hIn.heur) = 540
    /\ hOut.res = 500

IsHexColor(str) ==
    /\ Len(str) = 7
    /\ str[1] = "#"
    /\ \A i \in 2..7 : \E d \in DOMAIN HexDigits : str[i] = HexDigits[d]

C14_StickyRoundedLocation ==
    (/\ hOut # NoCall /\ hOut.fn = "current_location"
     /\ hIn.prefs.lat = NoCoordinate /\ hIn.prefs.lon = NoCoordinate) =>
        /\ hOut.res = NoLocation <=> gw.inner_latest = NoLocation
        /\ gw.inner_latest # NoLocation =>
              LET step == IF hIn.prefs.location_precision_deg = 0 THEN Micro \div 4
                          ELSE hIn.prefs.location_precision_deg
              IN  hOut.res = Location(PyRound(gw.inner_latest.lat, step) * step,
                                      PyRound(gw.inner_latest.lon, step) * step)

\* The inner gateway has returned (10.4, 20.6) and now returns None; at
\* precision 1.0 the result is still (10, 21).
C14_Witness ==
    /\ hOut # NoCall /\ hOut.fn = "current_location"
    /\ hIn.prefs = LocationPreferences(NoCoordinate, NoCoordinate, Micro)
    /\ hIn.inner = NoLocation
    /\ gw.calls >= 2
    /\ hOut.res = Location(10 * Micro, 21 * Micro)

\* C15: with preferences that hold both lat and lon, current_location
\* returns them rounded to the configured precision, does not call the
\* inner gateway and leaves the cached last location as it was.
C15_PreferencesLocationOverrides ==
    [][(/\ hIn'.fn = "current_location"
        /\ hIn'.prefs.lat # NoCoordinate /\ hIn'.prefs.lon # NoCoordinate
        /\ gw'.calls = gw.calls + 1) =>
          /\ LET step == IF hIn'.prefs.location_precision_deg = 0 THEN Micro \div 4
                         ELSE hIn'.prefs.location_precision_deg
             IN  hOut'.res = Location(PyRound(hIn'.prefs.lat, step) * step,
                                      PyRound(hIn'.prefs.lon, step) * step)
          /\ hIn'.inner = NotAsked
          /\ gw'.inner_calls = gw.inner_calls
          /\ gw'.last = gw.last]_vars

\* The preferences hold (37.7749, -122.4194) at precision 0.25 while the
\* cache holds a location of the inner gateway.
C15_Witness ==
    /\ hOut # NoCall /\ hOut.fn = "current_location"
    /\ hIn.prefs = LocationPreferences(377749 * (Micro \div 10000),
                                       -1224194 * (Micro \div 10000), Micro \div 4)
    /\ hIn.inner = NotAsked
    /\ gw.last = Location(104 * (Micro \div 10), 206 * (Micro \div 10))
    /\ gw.inner_calls = 1 /\ gw.calls = 2
    /\ hOut.res = Location(3775 * (Micro \div 100), -1225 * (Micro \div 10))

\* C16: apply_turbidity_effect leaves the green and blue channels of both
\* colours as they are; it raises the horizon red by 0.08 * warm * att and
\* the zenith red by 0.03 * warm * att, capped at 1, with warm = max(0,
\* (turbidity - 2.2) / 0.8) and att = min(1, 10 * zenith luminance); on a
\* black zenith it changes nothing.
C16_TurbidityOnlyRaisesRed ==
    Called("apply_turbidity_effect") =>
        LET h == hIn.h
            z == hIn.z
            warm == Max(0, RDiv((hIn.p - 22 * (Unit \div 10)) * 10, 8))
            att == Min(Unit, RDiv(2126 * z.r + 7152 * z.g + 722 * z.b, 1000))
            wa == RDiv(warm * att, Unit)
        IN  /\ hOut.res[1].g = h.g /\ hOut.res[1].b = h.b
            /\ hOut.res[2].g = z.g /\ hOut.res[2].b = z.b
            /\ hOut.res[1].r = Min(Unit, h.r + RDiv(8 * wa, 100))
            /\ hOut.res[2].r = Min(Unit, z.r + RDiv(3 * wa, 100))
            /\ z = Color(0, 0, 0) => hOut.res = <<h, z>>

\* Turbidity 3.0 (warm 1) under a dim zenith of luminance 0.009 (att 0.09):
\* the reds rise by 0.0072 and 0.0027.
C16_Witness ==
    /\ Called("apply_turbidity_effect")
    /\ hIn.p = 3 * Unit
    /\ hIn.h = Color(6 * (Unit \div 10), Unit, 0)
    /\ hIn.z = Color(90, 90, 90)
    /\ hOut.res[1] = Color(6072, Unit, 0)
    /\ hOut.res[2] = Color(117, 90, 90)

\* C17: render_gradient produces one stop per view sample (32 stops), with
\* percents in [0, 100] that are the values (1 - s) * 100 and strictly
\* ascending in the returned order (hence pairwise distinct); the colour
\* returned as zenith is that of the first stop, whose percent is 0, and the
\* colour returned as horizon is that of the last stop, whose percent is 100.
C17_StopsSortedZenithFirst ==
    (hOut # NoCall /\ hOut.fn = "render_gradient") =>
        LET stops == hOut.res.stops
        IN  /\ Len(stops) = SAMPLES
            /\ \A k \in 1..Len(stops) : stops[k].percent \in 0..(100 * Unit)
            /\ {stops[k].percent : k \in 1..Len(stops)}
                    = {(Unit - ViewS(i)) * 100 : i \in 0..(SAMPLES - 1)}
            /\ \A j, k \in 1..Len(stops) :
                    j < k => stops[j].percent < stops[k].percent
            /\ stops[1].percent = 0
            /\ hOut.res.zenith = stops[1].rgb
            /\ stops[Len(stops)].percent = 100 * Unit
            /\ hOut.res.horizon = stops[Len(stops)].rgb

\* A gradient of the low sun was rendered: blue-grey at the top, orange at
\* the bottom, the view samples having been appended bottom first.
C17_Witness ==
    /\ hOut # NoCall
    /\ hOut.fn = "render_gradient"
    /\ hIn.altitude_deg = 23
    /\ hOut.res.zenith = Rgb8(78, 81, 103)
    /\ hOut.res.horizon = Rgb8(196, 123, 25)
    /\ hOut.res.zenith = StopRgb(23, SAMPLES - 1)
    /\ hOut.res.horizon = StopRgb(23, 0)

\* The ray of a compute_transmittance call misses the top of the atmosphere.
RayMisses(height, angle) ==
    intersect_sphere(<<0, GROUND_RADIUS + height, 0>>,
                     <<RDiv(sin(angle), 100), RDiv(cos(angle), 100), 0>>,
                     TOP_RADIUS) = NoIntersection

\* View sample i of render_gradient has no positive exit distance.
NoPositiveExit(i) ==
    LET t_exit_top == intersect_sphere(camera_position, view_direction(i), TOP_RADIUS)
    IN  t_exit_top = NoIntersection \/ t_exit_top.t <= 0

\* C18: a ray that misses the sphere is an ordinary outcome: a call of
\* compute_transmittance whose ray has no intersection returns exactly
\* (1, 1, 1), and a view sample of render_gradient with no positive exit
\* distance gets the stop colour (0, 0, 0); both calls return a value.
C18_MissIsOrdinary ==
    /\ (hOut # NoCall /\ hOut.fn = "compute_transmittance"
            /\ RayMisses(hIn.height, hIn.angle))
        => hOut.res = <<Unit, Unit, Unit>>
    /\ (hOut # NoCall /\ hOut.fn = "render_gradient")
        => \A i \in 0..(SAMPLES - 1) :
              NoPositiveExit(i) => hOut.res.stops[SAMPLES - i].rgb = Rgb8(0, 0, 0)

\* A horizontal ray from 200 km above the ground, which is above the top of
\* the atmosphere, missed it and the call returned full transmittance.
C18_Witness ==
    /\ hOut # NoCall
    /\ hOut.fn = "compute_transmittance"
    /\ hIn.height = 10
    /\ hIn.angle = 90
    /\ RayMisses(hIn.height, hIn.angle)
    /\ hOut.res = <<Unit, Unit, Unit>>

\* A call of sample made a request and the request or the decoding of its
\* body failed.
FetchFailed == hIn # NoCall /\ hIn.fn = "sample" /\ hIn.fetch \in FetchErrors

\* C19: when the network request or the JSON decoding fails, sample returns
\* None (it does not raise to the caller) and leaves its cache entry as it
\* found it, so a cached sample is never replaced by a failure.
C19_FailureReturnsNone ==
    FetchFailed => (hOut.ended = "returned None" /\ gw.cache = hIn.cache)

\* C20: every call of sun_position, for a latitude from -90 to 90 and any
\* instant and longitude (any hour angle and declination of the sun),
\* returns an altitude_deg in [-90, 90] and an azimuth_deg in [0, 360).
C20_SunPositionInRange ==
    (hOut # NoCall /\ hOut.fn = "sun_position") =>
        /\ hOut.res.ended = "returned"
        /\ hOut.res.altitude_deg \in -90..90
        /\ hOut.res.azimuth_deg \in 0..359

\* C21: in every presented snapshot air_quality_index is _derive_aqi of the
\* heuristics field of that snapshot, hence of the humidity-adjusted
\* turbidity when the adjustment was applied; it is an index from 0 to 500
\* whether or not influence_air_quality is on, and the view model shows it.
C21_AqiOfSnapshotHeuristics ==
    Presented(lastRun) =>
        /\ latest.air_quality_index = derive_aqi(latest.heuristics)
        /\ latest.air_quality_index \in 0..500
        /\ lastRun.view.air_quality_index = latest.air_quality_index

\* A run with the air quality toggle off and a humid sample: the turbidity
\* was adjusted, no air quality stage ran, and the index reported is the one
\* of the adjusted heuristics, not the one of the heuristics as derived.
C21_Witness ==
    /\ Presented(lastRun)
    /\ ~lastRun.prefs.influence_air_quality
    /\ TurbidityAdjusted(lastRun)
    /\ \A i \in 1..Len(lastRun.trace) : lastRun.trace[i].stage # "air_quality"
    /\ latest.air_quality_index = derive_aqi(latest.heuristics)
    /\ latest.air_quality_index
          # derive_aqi(RunHeuristics(latest.lat_deg, latest.lon_deg, lastRun.inputs.now))

\* C22: the timer made by start() has an interval of 1 second; when a tick
\* that read a view model is over, the scheduler's interval is 90 for
\* LOW_SUN, CIVIL, NAUTICAL and ASTRONOMICAL and 900 for DAY and NIGHT, and
\* the timer made right after that tick was made with that interval.
C22_IntervalFollowsRegime ==
    gw.kind = "scheduler" =>
        \A j \in 1..Len(gw.timers) :
            LET tm == gw.timers[j]
                due(regime) == IF regime \in {"LOW_SUN", "CIVIL", "NAUTICAL",
                                              "ASTRONOMICAL"}
                               THEN 90 ELSE 900
            IN  /\ tm.after = "start" => tm.interval = 1
                /\ tm.after \in Regimes => tm.interval = due(tm.after)
                /\ (tm.state = "finally" /\ tm.outcome \in Regimes)
                       => gw.interval = due(tm.outcome)

\* A twilight tick that followed a daytime tick: the timer made after it
\* has 90 seconds where the timer that fired had 900.
C22_Witness ==
    /\ gw.kind = "scheduler"
    /\ \E j \in 2..Len(gw.timers) - 1 :
         /\ gw.timers[j].after = "DAY"
         /\ gw.timers[j].interval = 900
         /\ gw.timers[j].outcome = "CIVIL"
         /\ gw.timers[j + 1].after = "CIVIL"
         /\ gw.timers[j + 1].interval = 90

\* C25: once stop() has returned, no invocation of the callback begins.
C25_NoCallbackAfterStop ==
    gw.kind = "scheduler" =>
        \A i \in 1..Len(gw.timers) : gw.timers[i].began # "stopped"

\* Timers that are over, or will never call their function.
Quiescent ==
    \A i \in 1..Len(gw.timers) : gw.timers[i].state \in {"done", "cancelled"}

\* Timers made after stop() was called.
MadeAfterStop ==
    {j \in 1..Len(gw.timers) : gw.timers[j].born \in {"stopping", "stopped"}}

\* C26 (safety part): after stop() at most one further timer is made, by a
\* _run that had begun its callback before stop() was called or while it
\* ran, and that timer's _run neither calls the callback nor makes a timer.
AtMostOneFurtherTimer ==
    /\ Cardinality(MadeAfterStop) <= 1
    /\ \A j \in MadeAfterStop :
         /\ gw.timers[gw.timers[j].by].state \in {"made", "done"}
         /\ gw.timers[j].state \in {"new", "waiting", "cancelled", "fired", "done"}
         /\ gw.timers[j].began = "never"
         /\ \A k \in 1..Len(gw.timers) : gw.timers[k].by # j

\* C26: after stop() the scheduler eventually becomes quiescent: at most
\* one further timer is made, it never calls the callback nor makes
\* another, and in the end no timer is pending, for good.
C26_QuiescentAfterStop ==
    /\ [](gw.kind = "scheduler" => AtMostOneFurtherTimer)
    /\ [](gw.kind = "scheduler" /\ gw.stopped => <>[]Quiescent)

\* stop() was called during a callback: that _run made one more timer,
\* whose _run returned at the guard, and nothing is left pending.
C26_Witness ==
    /\ gw.kind = "scheduler"
    /\ gw.main = "stopped"
    /\ Quiescent
    /\ \E j \in MadeAfterStop :
         /\ gw.timers[j].state = "done"
         /\ gw.timers[gw.timers[j].by].began = "ui"

\* The timers made by the _run of timer i.
NextTimers(i) == {j \in 1..Len(gw.timers) : gw.timers[j].by = i}

\* Timers that will call _run unless cancelled.
PendingTimers ==
    {j \in 1..Len(gw.timers) : gw.timers[j].state \in {"new", "waiting"}}

\* C27: while the scheduler is started and not stopped, a callback that
\* returned or raised is followed by the making of exactly one next timer
\* (none before the callback is over, one after, never two), and at most
\* one timer is pending.
C27_OneNextTimer ==
    /\ [](gw.kind = "scheduler" /\ ~gw.stopped =>
            /\ Cardinality(PendingTimers) <= 1
            /\ \A i \in 1..Len(gw.timers) :
                 /\ Cardinality(NextTimers(i)) <= 1
                 /\ gw.timers[i].state \in {"made", "done"}
                        => Cardinality(NextTimers(i)) = 1)
    /\ \A i \in 1..MaxTimers :
         (gw.kind = "scheduler" /\ i <= Len(gw.timers) /\ ~gw.stopped
              /\ gw.timers[i].state = "callback")
         ~> (\E j \in 1..Len(gw.timers) :
                /\ gw.timers[j].by = i
                /\ gw.timers[i].state = "done")

\* A tick that raised while the scheduler ran, and the timer made after it
\* waiting to fire.
C27_Witness ==
    /\ gw.kind = "scheduler"
    /\ ~gw.stopped
    /\ \E i \in 1..Len(gw.timers) :
         /\ gw.timers[i].outcome = "raised"
         /\ gw.timers[i].state = "done"
         /\ \E j \in NextTimers(i) : gw.timers[j].state = "waiting"

\* The zenith colour a stage of the run was given, as a one-element set
\* (empty when the stage was not applied).
StageZenith(run, stage) ==
    {run.trace[i].zin : i \in {k \in 1..Len(run.trace) : run.trace[k].stage = stage}}

\* C23: in one run of execute the light pollution stage and the air
\* quality stage agree on whether the zenith they are given is deep night.
C23_DeepNightAgrees ==
    Presented(lastRun) =>
        \A z1 \in StageZenith(lastRun, "light_pollution"),
           z2 \in StageZenith(lastRun, "air_quality") :
            DeepNight(z1) = DeepNight(z2)

\* The Heuristics values execute can hand to _derive_aqi: turbidity in
\* [2.2, 3.2], light_pollution in [0.35, 0.65], overcast in [0, 1).
ReachableHeuristics(heur) ==
    /\ heur.turbidity >= 22 * (Unit \div 10)
    /\ heur.turbidity <= 32 * (Unit \div 10)
    /\ heur.light_pollution >= 35 * (Unit \div 100)
    /\ heur.light_pollution <= 65 * (Unit \div 100)
    /\ heur.overcast >= 0
    /\ heur.overcast < Unit

\* C24: for a Heuristics value reachable inside execute, _derive_aqi
\* returns more than 50 and at most 300, so the air quality stage given
\* that index has a positive effect strength and does not return its
\* inputs as they are.
C24_ReachableAqiAboveNeutral ==
    (Called("_derive_aqi") /\ ReachableHeuristics(hIn.heur)) =>
        /\ hOut.res > 50
        /\ hOut.res <= 300
        /\ AqiEffectStrength(hOut.res) > 0

\* The lowest reachable index: turbidity 2.2, light pollution 0.35 and an
\* overcast just under 1 give 53 (the highest corner, 3.2, 0.65 and no
\* overcast, gives 268).
C24_Witness ==
    /\ Called("_derive_aqi")
    /\ hIn.heur = Heuristics(22 * (Unit \div 10), Unit - 1, 35 * (Unit \div 100))
    /\ hOut.res = 53

\* C29: a sample that sample(lat, lon) returns was fetched for that same
\* (lat, lon) and is younger than the TTL at the time of the call.
C29_SampleOfSamePlace ==
    (hOut.fn = "sample" /\ hOut.ended = "returned") =>
        /\ hOut.res.lat = hIn.lat
        /\ hOut.res.lon = hIn.lon
        /\ hIn.now - hOut.res.timestamp < ttl

\* The view model execute presents for these preferences and inputs.
execute_view(prefs, inputs) ==
    SkyViewModel(SkySnapshot(AirQualityStep(
        WeatherStep(TurbidityStep(LightPollutionStep(
                        Loaded(prefs, inputs.now, inputs.location))),
                    inputs.sample))))

\* C28: when a preference change handled by on_prefs_changed overlapped a
\* tick and both are over, the view model the presenter holds, which is
\* the one last passed to ui.update, is one computed from the new
\* preferences.
C28_NewPreferencesShown ==
    (gw.kind = "app" /\ gw.todo = <<"done", "done">> /\ gw.overlap) =>
        /\ SkyViewModel(latest) = execute_view(gw.prefs, lastRun.inputs)
        /\ gw.ui = SkyViewModel(latest)

====
